---- MODULE Spec2Model ----
(***************************************************************************)
(* Nightshift VM lifecycle core: the per-run EventBuffer (events.py), the  *)
(* warm VM pool (vm/pool.py) and the pooled run orchestrator (task.py).    *)
(*                                                                         *)
(* Scheduling model.  The control plane is one asyncio event loop: code    *)
(* between two suspension points runs atomically.  An asyncio.Lock that is *)
(* free is acquired without suspending, and neither condition's lock is    *)
(* ever held across a suspension, so "async with self._cond:" never        *)
(* suspends; the only suspension points are cond.wait(), a generator's     *)
(* yield to its consumer, and awaits on I/O (health probe, cold start,     *)
(* guest HTTP, VM destroy).  Each action below is one such atomic stretch. *)
(***************************************************************************)
EXTENDS Integers, Sequences, FiniteSets, TLC

\* ---------------------------------------------------------------- bounds
MaxAppends == 3      \* records appended to the buffer in all
MaxLists == 3        \* list objects the buffer ever allocates

MaxEntries == 3      \* pool entries (and so VMs) ever created
MaxMsgs == 0         \* agent.message events a guest emits in one attempt
DefaultMaxVms == 2   \* VMPool(default_max_vms=...), the platform default cap
MaxKills == 2        \* guest processes that die on their own
MaxInvalidations == 1  \* invalidate_agent calls (redeploy, delete)
MaxVmKills == 1      \* guest deaths in the specification that tracks the host
MaxDestroyCalls == 2 \* destroy() calls a caller makes on one VM handle
MaxStaleRules == 2   \* copies of one iptables rule a dead server process left

RunId == {"r1", "r2", "r3"}
BufRuns == {"r1", "r2"}   \* the runs exercised by the buffer-only specification
Runs2 == {"r1", "r2"}     \* the runs of the two-run pool specification
Sub == {"s1", "s2"}
Agent == {"a1"}
EntryId == 1..MaxEntries
\* run ids are fresh tokens; the runs are created in this order
RunOrder == [r \in RunId |-> CASE r = "r1" -> 1 [] r = "r2" -> 2 [] r = "r3" -> 3]

\* events.py:55
TERMINAL_EVENTS == {"nightshift.completed", "nightshift.error", "nightshift.interrupted"}

\* event types the producers append (one non-terminal, one terminal)
EventTypes == {"agent.message", "nightshift.completed"}

\* the three ways the buffer is read: EventBuffer.stream (entry.py:123),
\* EventBuffer.stream_sse (entry.py:182), server.py _stream_and_reap
Kinds == {"stream", "sse", "http"}

VARIABLES
  runs,     \* EventBuffer._runs: run id -> list object (0 = key absent)
  lists,    \* heap of list objects: id -> sequence of (type, payload)
  nlists,   \* number of list objects allocated so far
  done,     \* EventBuffer._done
  hist,     \* history: every record ever appended to a run id, in order
  prod,     \* producer of a run: "open" until it has called cleanup
  reaped,   \* history: reap(run_id) has removed records of the run
  subs      \* subscribers: the frame of one stream / stream_sse generator;
            \* tailed = it has waited on the condition holding all records so far,
            \* late = it subscribed after the run's cleanup and a reap of the run,
            \* overtaken = another subscriber's reap of its run happened while
            \* this one was streaming

VARIABLES
  cfg,        \* AgentConfig of each agent: stateful, max_concurrent_vms
  agents,     \* VMPool._agents: agent id -> list of entries (entry ids)
  ent,        \* heap of _PoolEntry objects; an entry's VM carries the entry's id
  nent,       \* number of _PoolEntry objects created so far
  teardown,   \* entries detached from the pool whose _destroy_entry is pending
  env,        \* history: counts of guest deaths and invalidate_agent calls;
              \* default_max_vms = VMPool._default_max_vms
  run         \* frame of each run's run_task_pooled coroutine; history fields:
              \* probed = its checkout saw a failed health probe, synth = it
              \* published a synthetic error, blocked = its current checkout
              \* has waited at the cap, freed = an entry of its agent was
              \* checked in or removed since it last began to wait, gterm =
              \* wait_for_completion forwarded a terminal event of the guest

VARIABLES
  vmh,        \* FirecrackerVM handle of each entry's VM: _proc, _tap, _overlay_dir
              \* and _overlay_path as start() set them (destroy() resets none);
              \* history fields: extract = outcome of the last
              \* copy_workspace_out, calls = number of destroy() calls so far
  envs,       \* environment maps: env, forward_env = the stored AgentConfig's
              \* env and forward_env, req = runtime_env of each run request, reg =
              \* env of the RegisteredAgent built for the run, baked =
              \* VMConfig.env_vars handed to the overlay build of each VM, body
              \* = env of the run's POST /run body, guest = os.environ of each
              \* VM's guest process
  gproc,      \* guest process of each VM (agent/entry.py module state): run_lock
              \* = _run_lock is held, current_run_id = _current_run_id, task =
              \* the _execute_run task ("created" by POST /run, "running" once
              \* it holds the lock, "none" when it has returned)
  timers,     \* the _idle_expire tasks: alive = tasks in their sleep, neither
              \* cancelled nor run yet, as (entry, number); ref = the task an
              \* entry's idle_task field refers to (0 = None); armed = number
              \* of tasks created for the entry so far
  registry,   \* AgentRegistry rows of the runs: status and error columns
  host        \* the host: network._allocated_indices, TAP devices (with the
              \* index of their addresses), NAT rules per guest IP, firecracker
              \* processes, scratch directories, overlay images, each agent's
              \* workspace directory; fwd = TAP names with FORWARD rules; staged
              \* = entries whose package and staging directories exist; down =
              \* VMPool.shutdown has been called; swept = the startup call of
              \* cleanup_stale_taps has returned

bufvars == <<runs, lists, nlists, done, hist, prod, reaped, subs>>
poolvars == <<cfg, agents, ent, nent, teardown, env, run>>
sidevars == <<gproc, timers, registry>>
vmvars == <<vmh, host, envs, gproc, timers, registry>>
vars == <<runs, lists, nlists, done, hist, prod, reaped, subs,
          cfg, agents, ent, nent, teardown, env, run, vmh, host, envs,
          gproc, timers, registry>>

\* ------------------------------------------------------------ EventBuffer

\* a list object's contents; reference 0 is the fresh [] of _runs.get(run_id, [])
ListOf(ref) == IF ref = 0 THEN <<>> ELSE lists[ref]

\* asyncio.Condition.notify_all on EventBuffer._cond: every stream suspended
\* in cond.wait() becomes runnable and re-enters its "while True" loop
NotifyAll(ss) ==
  [s \in Sub |-> IF ss[s].pc = "waiting" THEN [ss[s] EXCEPT !.pc = "loop"] ELSE ss[s]]

\* the (event_type, payload) tuple stored for the n-th append to a run
Record(r, n, t) == <<t, [run_id |-> r, n |-> n]>>

\* EventBuffer.stream_sse's frame for a record: {event, data = {type, **payload}}
Frame(rec) == [event |-> rec[1],
               data |-> [type |-> rec[1], run_id |-> rec[2].run_id, n |-> rec[2].n]]

\* what a subscriber of a kind is handed for a record
Item(kind, rec) == IF kind = "stream" THEN rec ELSE Frame(rec)

\* the items a subscriber of kind k is handed for the records q
Items(k, q) == [i \in 1..Len(q) |-> Item(k, q[i])]

\* the event type of an item handed to a subscriber
ItemType(kind, it) == IF kind = "stream" THEN it[1] ELSE it.event

\* EventBuffer.reap
ReapRuns(r) == [runs EXCEPT ![r] = 0]
ReapDone(r) == done \ {r}

\* history: subscriber s has called reap(r); the other subscribers of r that
\* are still streaming are marked
Overtake(ss, s, r) ==
  [x \in Sub |-> IF x # s /\ ss[x].run = r /\ ss[x].pc \in {"loop", "yielded", "waiting"}
                 THEN [ss[x] EXCEPT !.overtaken = TRUE] ELSE ss[x]]

InitSub == [pc |-> "new", run |-> "r1", kind |-> "stream", cursor |-> 0,
            events |-> 0, recv |-> <<>>, tailed |-> FALSE, why |-> "none",
            late |-> FALSE, overtaken |-> FALSE]

InitBufVars ==
  /\ runs = [r \in RunId |-> 0]
  /\ lists = [i \in 1..MaxLists |-> <<>>]
  /\ nlists = 0
  /\ done = {}
  /\ hist = [r \in RunId |-> <<>>]
  /\ prod = [r \in RunId |-> "open"]
  /\ reaped = [r \in RunId |-> FALSE]
  /\ subs = [s \in Sub |-> InitSub]

\* ------------------------------------------------------------ VMPool state

InitEntry == [agent |-> "a1", vm |-> FALSE, busy |-> FALSE, idle_task |-> "none",
              alive |-> FALSE, destroyed |-> FALSE]

InitRun == [pc |-> "idle", agent |-> "a1", attempt |-> 0, entry |-> 0, g |-> 0,
            probed |-> FALSE, synth |-> FALSE, blocked |-> FALSE, freed |-> FALSE,
            gterm |-> FALSE]

\* the agent configurations exercised: explicit caps 1 and 2, the platform
\* default (max_concurrent_vms = 0) and a stateful agent
Configs == {[stateful |-> FALSE, max_concurrent_vms |-> 1],
            [stateful |-> FALSE, max_concurrent_vms |-> 2],
            [stateful |-> FALSE, max_concurrent_vms |-> 0],
            [stateful |-> TRUE, max_concurrent_vms |-> 2]}

InitPoolVars ==
  /\ agents = [a \in Agent |-> <<>>]
  /\ ent = [e \in EntryId |-> InitEntry]
  /\ nent = 0
  /\ teardown = {}
  /\ env = [kills |-> 0, invalidations |-> 0, default_max_vms |-> DefaultMaxVms]
  /\ run = [r \in RunId |-> InitRun]

\* network indices: the allocator hands out the least free index from 1 up
Index == 1..MaxEntries

\* FirecrackerVM.__init__: nothing provisioned
InitHandle == [proc |-> FALSE, tap |-> 0, dir |-> FALSE, overlay |-> FALSE,
               extract |-> "none", calls |-> 0]

\* names of environment variables: one a run request sends, one of the
\* agent's configuration, and the two the platform sets
EnvKeys == {"API_KEY", "MODE", "NIGHTSHIFT_WORKSPACE", "NIGHTSHIFT_AGENT_DIR"}

\* the value of a name that a dict does not hold
NoVal == "<unset>"

\* the empty dict
NoEnv == [k \in EnvKeys |-> NoVal]

\* pool.py:26
AGENT_PKG_DIR == "/opt/nightshift/agent_pkg"

InitEnvs == [env |-> [a \in Agent |-> NoEnv], forward_env |-> [a \in Agent |-> {}],
             req |-> [r \in RunId |-> NoEnv], reg |-> [r \in RunId |-> NoEnv],
             baked |-> [e \in EntryId |-> NoEnv], body |-> [r \in RunId |-> NoEnv],
             guest |-> [e \in EntryId |-> NoEnv]]

\* no guest process has a run, no idle timer exists, the runs table is empty
InitSideVars ==
  /\ gproc = [e \in EntryId |-> [run_lock |-> FALSE, current_run_id |-> "none",
                                 task |-> "none"]]
  /\ timers = [alive |-> {}, ref |-> [e \in EntryId |-> 0],
               armed |-> [e \in EntryId |-> 0]]
  /\ registry = [r \in RunId |-> [status |-> "none", error |-> "none"]]

InitVmVars ==
  /\ InitSideVars
  /\ envs = InitEnvs
  /\ vmh = [e \in EntryId |-> InitHandle]
  /\ host = [allocated |-> {}, taps |-> [e \in EntryId |-> 0],
             nat |-> [i \in Index |-> 0], procs |-> {}, dirs |-> {}, images |-> {},
             workspace |-> [a \in Agent |-> 0], fwd |-> {}, staged |-> {},
             down |-> FALSE, swept |-> TRUE]

InitBuf ==
  /\ InitBufVars
  /\ InitPoolVars
  /\ InitVmVars
  /\ cfg = [a \in Agent |-> [stateful |-> FALSE, max_concurrent_vms |-> 0]]

\* EventBuffer.append: setdefault(run_id, []).append(...), then notify_all
AppendEff(r, t) ==
  /\ runs[r] # 0 \/ nlists < MaxLists
  /\ LET rec == Record(r, Len(hist[r]) + 1, t)
         ref == IF runs[r] = 0 THEN nlists + 1 ELSE runs[r]
     IN /\ runs' = [runs EXCEPT ![r] = ref]
        /\ nlists' = IF runs[r] = 0 THEN nlists + 1 ELSE nlists
        /\ lists' = [lists EXCEPT ![ref] = Append(lists[ref], rec)]
        /\ hist' = [hist EXCEPT ![r] = Append(hist[r], rec)]
  /\ subs' = NotifyAll(subs)

\* a producer of the buffer-only specification appends a record
append(r, t) ==
  /\ prod[r] = "open"
  /\ Len(hist["r1"]) + Len(hist["r2"]) + Len(hist["r3"]) < MaxAppends
  /\ AppendEff(r, t)
  /\ UNCHANGED <<done, prod, reaped>>

\* cleanup that forgets notify_all: waiting streams are not woken
cleanup_no_notify(r) ==
  /\ prod[r] = "open"
  /\ prod' = [prod EXCEPT ![r] = "closed"]
  /\ done' = done \cup {r}
  /\ UNCHANGED <<runs, lists, nlists, hist, reaped, subs>>

\* cleanup that deletes the run's records, as test_event_buffer_cleanup expects
cleanup_pops(r) ==
  /\ prod[r] = "open"
  /\ prod' = [prod EXCEPT ![r] = "closed"]
  /\ done' = done \cup {r}
  /\ runs' = [runs EXCEPT ![r] = 0]
  /\ subs' = NotifyAll(subs)
  /\ UNCHANGED <<lists, nlists, hist, reaped>>

\* EventBuffer.cleanup (the spec's mark_done): add to _done, notify_all
cleanup(r) ==
  /\ prod[r] = "open"
  /\ prod' = [prod EXCEPT ![r] = "closed"]
  /\ done' = done \cup {r}
  /\ subs' = NotifyAll(subs)
  /\ UNCHANGED <<runs, lists, nlists, hist, reaped>>

\* a consumer starts iterating stream(run_id) / stream_sse(run_id) / the
\* server's _stream_and_reap(); cursor = 0
Subscribe(s, r, k) ==
  /\ subs[s].pc = "new"
  /\ subs' = [subs EXCEPT ![s] = [InitSub EXCEPT !.pc = "loop", !.run = r, !.kind = k,
                                     !.late = (prod[r] = "closed" /\ reaped[r])]]
  /\ UNCHANGED <<runs, lists, nlists, done, hist, prod, reaped>>

\* the generator runs from "cursor < len(events)" with the list object ref
\* to its next suspension: yield events[cursor], return, or cond.wait()
StreamFrom(s, ref, cur) ==
  LET me == subs[s]
      r == me.run
  IN IF cur < Len(ListOf(ref))
     THEN /\ subs' = [subs EXCEPT ![s] = [me EXCEPT !.pc = "yielded", !.events = ref,
                         !.cursor = cur,
                         !.recv = Append(me.recv, Item(me.kind, ListOf(ref)[cur + 1]))]]
          /\ UNCHANGED <<runs, done, reaped>>
     ELSE IF r \in done
     THEN \* return; the server's _stream_and_reap then calls reap(run_id)
          /\ subs' = [(IF me.kind = "http" THEN Overtake(subs, s, r) ELSE subs) EXCEPT
                         ![s] = [me EXCEPT !.pc = "closed", !.events = ref,
                                           !.cursor = cur, !.why = "done"]]
          /\ IF me.kind = "http"
             THEN /\ runs' = ReapRuns(r)
                  /\ done' = ReapDone(r)
                  /\ reaped' = [reaped EXCEPT ![r] = TRUE]
             ELSE UNCHANGED <<runs, done, reaped>>
     ELSE /\ subs' = [subs EXCEPT ![s] = [me EXCEPT !.pc = "waiting", !.events = ref,
                         !.cursor = cur,
                         !.tailed = me.tailed \/ me.recv = Items(me.kind, hist[r])]]
          /\ UNCHANGED <<runs, done, reaped>>

\* EventBuffer.stream at the top of "while True": events = _runs.get(run_id, [])
StreamLoop(s) ==
  /\ subs[s].pc = "loop"
  /\ StreamFrom(s, runs[subs[s].run], subs[s].cursor)
  /\ UNCHANGED <<lists, nlists, hist, prod>>

\* stream_sse without its "if event_type in TERMINAL_EVENTS: return"
StreamResumeNoTerminal(s) ==
  /\ subs[s].pc = "yielded"
  /\ StreamFrom(s, subs[s].events, subs[s].cursor + 1)
  /\ UNCHANGED <<lists, nlists, hist, prod>>

\* the consumer asks for the next item: stream_sse returns after a terminal
\* frame; otherwise stream continues after its yield with cursor += 1
StreamResume(s) ==
  LET me == subs[s]
  IN /\ me.pc = "yielded"
     /\ IF me.kind # "stream" /\ ItemType(me.kind, me.recv[Len(me.recv)]) \in TERMINAL_EVENTS
        THEN /\ subs' = [(IF me.kind = "http" THEN Overtake(subs, s, me.run) ELSE subs) EXCEPT
                            ![s] = [me EXCEPT !.pc = "closed", !.why = "terminal"]]
             /\ IF me.kind = "http"
                THEN /\ runs' = ReapRuns(me.run)
                     /\ done' = ReapDone(me.run)
                     /\ reaped' = [reaped EXCEPT ![me.run] = TRUE]
                ELSE UNCHANGED <<runs, done, reaped>>
        ELSE StreamFrom(s, me.events, me.cursor + 1)
     /\ UNCHANGED <<lists, nlists, hist, prod>>

NextBuf ==
  \/ \E r \in BufRuns, t \in EventTypes : append(r, t) /\ UNCHANGED <<poolvars, vmvars>>
  \/ \E r \in BufRuns : cleanup(r) /\ UNCHANGED <<poolvars, vmvars>>
  \/ \E s \in Sub, r \in BufRuns, k \in Kinds : Subscribe(s, r, k) /\ UNCHANGED <<poolvars, vmvars>>
  \/ \E s \in Sub : StreamLoop(s) /\ UNCHANGED <<poolvars, vmvars>>
  \/ \E s \in Sub : StreamResume(s) /\ UNCHANGED <<poolvars, vmvars>>

SpecBuf == InitBuf /\ [][NextBuf]_vars


\* ------------------------------------------------------------ VMPool

\* VMPool.checkout, "Resolve effective max concurrency"
effective_max(c) ==
  IF c.stateful THEN 1
  ELSE IF c.max_concurrent_vms > 0 THEN c.max_concurrent_vms
  ELSE env.default_max_vms

\* asyncio.Condition.notify_all on VMPool._cond: every checkout suspended in
\* cond.wait() becomes runnable and re-runs its loop
PoolNotify(rn) ==
  [r \in RunId |-> IF rn[r].pc = "co_wait" THEN [rn[r] EXCEPT !.pc = "checkout"] ELSE rn[r]]

\* history: an entry of agent a was checked in or removed (chg) in this step
Freed(rn, a, chg) ==
  [r \in RunId |-> IF chg /\ rn[r].agent = a /\ rn[r].pc \in {"co_wait", "checkout"}
                   THEN [rn[r] EXCEPT !.freed = TRUE] ELSE rn[r]]

\* "entry in entries"
InPool(a, e) == \E i \in 1..Len(agents[a]) : agents[a][i] = e

\* entries.remove(entry)
Remove(q, e) == SelectSeq(q, LAMBDA x : x # e)

\* the warm test that forgets the busy flag
IdleIdxIgnoringBusy(a) ==
  {i \in 1..Len(agents[a]) : ent[agents[a][i]].vm}

\* checkout step 1: positions of entries with "not e.busy and e.vm is not None"
IdleIdx(a) ==
  {i \in 1..Len(agents[a]) : ~ent[agents[a][i]].busy /\ ent[agents[a][i]].vm}

\* a checkout that goes on to step 2 although step 1 found an entry
WarmMissAlways(a) == TRUE

\* checkout, "if entry is not None: break" not taken: step 1 found nothing
WarmMiss(a) == IdleIdx(a) = {}

\* the limit test off by one
UnderLimitInclusive(n, c) == n <= effective_max(c)

\* checkout step 2: "len(entries) < effective_max"
UnderLimit(n, c) == n < effective_max(c)

Min(S) == CHOOSE i \in S : \A j \in S : i <= j

\* FirecrackerVM.is_healthy_async: GET /health answers 200; the guest process
\* is alive and the VM has not been destroyed
is_healthy(e) == ent[e].vm /\ ent[e].alive /\ ~ent[e].destroyed

\* VMPool._destroy_entry on the entry object: cancel the idle task, destroy the
\* VM (FirecrackerVM.destroy kills the firecracker process)
Destroyed(en) == [en EXCEPT !.idle_task = "none", !.destroyed = en.vm, !.alive = FALSE]

\* _destroy_entry run by the entry's own idle task (_idle_expire): cancel()
\* hits the running task, so CancelledError is raised at the first await that
\* suspends. Stateless: destroy() has killed the process and stops at
\* proc.wait(), TAP and overlay remain. Stateful: copy_workspace_out stops at
\* its first API call, the VM keeps running.
Cancelled(en, stateful) ==
  [en EXCEPT !.idle_task = "none", !.alive = en.alive /\ stateful]

\* the run holds the VM handle checkout returned to it
Holds(r, e) == run[r].entry = e /\ run[r].pc \in {"submit", "wait", "checkin"}

\* run_task_pooled's "except Exception as e: publish(ErrorEvent)" and
\* "finally: cleanup(run_id)"
PublishErrorAndCleanup(r) ==
  /\ AppendEff(r, "nightshift.error")
  /\ done' = done \cup {r}
  /\ prod' = [prod EXCEPT ![r] = "closed"]
  /\ UNCHANGED reaped

\* server.py create_run: publish StartedEvent, launch _run_agent_task
Start(r, a) ==
  /\ run[r].pc = "idle"
  /\ \A q \in RunId : RunOrder[q] < RunOrder[r] => run[q].pc # "idle"
  /\ run' = [run EXCEPT ![r] = [InitRun EXCEPT !.pc = "checkout", !.agent = a]]
  /\ AppendEff(r, "nightshift.started")
  /\ UNCHANGED <<done, prod, reaped, cfg, agents, ent, nent, teardown, env>>

\* a warm hit that marks the entry busy and leaves its idle task alone
CheckoutWarmKeepingTimer(r) ==
  LET a == run[r].agent
  IN /\ run[r].pc = "checkout"
     /\ ~WarmMiss(a)
     /\ LET e == agents[a][Min(IdleIdx(a))]
        IN /\ ent' = [ent EXCEPT ![e].busy = TRUE]
           /\ run' = [run EXCEPT ![r].pc = "health", ![r].entry = e,
                                  ![r].blocked = FALSE, ![r].freed = FALSE]
     /\ UNCHANGED <<bufvars, cfg, agents, nent, teardown, env>>

\* VMPool.checkout, one iteration of the loop under the condition: warm path
CheckoutWarm(r) ==
  LET a == run[r].agent
  IN /\ run[r].pc = "checkout"
     /\ ~WarmMiss(a)
     /\ LET e == agents[a][Min(IdleIdx(a))]
        IN /\ ent' = [ent EXCEPT ![e].busy = TRUE, ![e].idle_task = "none"]
           /\ run' = [run EXCEPT ![r].pc = "health", ![r].entry = e,
                                  ![r].blocked = FALSE, ![r].freed = FALSE]
     /\ UNCHANGED <<bufvars, cfg, agents, nent, teardown, env>>

\* ... cold path: append a busy placeholder with vm = None
CheckoutCold(r) ==
  LET a == run[r].agent
  IN /\ run[r].pc = "checkout"
     /\ WarmMiss(a)
     /\ UnderLimit(Len(agents[a]), cfg[a])
     /\ nent < MaxEntries
     /\ LET e == nent + 1
        IN /\ nent' = e
           /\ ent' = [ent EXCEPT ![e] = [InitEntry EXCEPT !.agent = a, !.busy = TRUE]]
           /\ agents' = [agents EXCEPT ![a] = Append(agents[a], e)]
           /\ run' = [run EXCEPT ![r].pc = "cold", ![r].entry = e,
                                  ![r].blocked = FALSE, ![r].freed = FALSE]
     /\ UNCHANGED <<bufvars, cfg, teardown, env>>

\* ... at the limit: "await self._cond.wait()"
CheckoutWait(r) ==
  LET a == run[r].agent
  IN /\ run[r].pc = "checkout"
     /\ WarmMiss(a)
     /\ ~UnderLimit(Len(agents[a]), cfg[a])
     /\ run' = [run EXCEPT ![r].pc = "co_wait", ![r].blocked = TRUE, ![r].freed = FALSE]
     /\ UNCHANGED <<bufvars, cfg, agents, ent, nent, teardown, env>>

\* checkout, "Warm hit - health check": the probe answers; an unhealthy entry
\* is removed under the condition (_remove_entry) and its teardown begins
Health(r) ==
  LET a == run[r].agent
      e == run[r].entry
  IN /\ run[r].pc = "health"
     /\ IF is_healthy(e)
        THEN /\ run' = [run EXCEPT ![r].pc = "submit"]
             /\ UNCHANGED agents
        ELSE /\ agents' = [agents EXCEPT ![a] = Remove(agents[a], e)]
             /\ run' = [PoolNotify(Freed(run, a, InPool(a, e))) EXCEPT
                       ![r].pc = "rm_destroy", ![r].probed = TRUE]
     /\ UNCHANGED <<bufvars, cfg, ent, nent, teardown, env>>

\* _remove_entry's _destroy_entry finishes; checkout raises "Warm VM unhealthy";
\* the checkout call is outside run_task_pooled's inner try, so the outer
\* handler publishes the error and the run ends
WarmUnhealthyRaise(r) ==
  LET e == run[r].entry
  IN /\ run[r].pc = "rm_destroy"
     /\ ent' = [ent EXCEPT ![e] = Destroyed(ent[e])]
     /\ run' = [run EXCEPT ![r].pc = "done", ![r].entry = 0, ![r].synth = TRUE]
     /\ PublishErrorAndCleanup(r)
     /\ UNCHANGED <<cfg, agents, nent, teardown, env>>

\* checkout, "Cold start": _cold_start succeeded, entry.vm = vm, return vm
ColdStartOk(r) ==
  LET e == run[r].entry
  IN /\ run[r].pc = "cold"
     /\ ent' = [ent EXCEPT ![e].vm = TRUE, ![e].alive = TRUE]
     /\ run' = [run EXCEPT ![r].pc = "submit"]
     /\ UNCHANGED <<bufvars, cfg, agents, nent, teardown, env>>

\* ... _cold_start raised: remove the placeholder, notify_all, re-raise; the
\* outer handler of run_task_pooled publishes the error
ColdStartFail(r) ==
  LET a == run[r].agent
      e == run[r].entry
  IN /\ run[r].pc = "cold"
     /\ agents' = [agents EXCEPT ![a] = Remove(agents[a], e)]
     /\ run' = [PoolNotify(Freed(run, a, InPool(a, e))) EXCEPT
                  ![r].pc = "done", ![r].entry = 0, ![r].synth = TRUE]
     /\ PublishErrorAndCleanup(r)
     /\ UNCHANGED <<cfg, ent, nent, teardown, env>>

\* run_task_pooled's inner handler: pool.invalidate_vm removes the entry whose
\* vm is the handle (if it is still pooled) and notifies; its teardown begins
InvalidateVm(r) ==
  LET a == run[r].agent
      e == run[r].entry
  IN /\ agents' = [agents EXCEPT ![a] = Remove(agents[a], e)]
     /\ run' = [(IF InPool(a, e) THEN PoolNotify(Freed(run, a, TRUE)) ELSE run) EXCEPT
                  ![r].pc = "inval", ![r].entry = IF InPool(a, e) THEN e ELSE 0]

\* FirecrackerVM.submit_run: POST /run is accepted by a healthy guest
SubmitOk(r) ==
  /\ run[r].pc = "submit"
  /\ is_healthy(run[r].entry)
  /\ run' = [run EXCEPT ![r].pc = "wait", ![r].g = 0]
  /\ UNCHANGED <<bufvars, cfg, agents, ent, nent, teardown, env>>

\* ... the guest is gone: submit_run raises, the handle is invalidated
SubmitFail(r) ==
  /\ run[r].pc = "submit"
  /\ ~is_healthy(run[r].entry)
  /\ InvalidateVm(r)
  /\ UNCHANGED <<bufvars, cfg, ent, nent, teardown, env>>

\* wait_for_completion forwards one non-terminal guest event (publish_raw):
\* the guest's own nightshift.started first, then agent messages
Forward(r) ==
  /\ run[r].pc = "wait"
  /\ is_healthy(run[r].entry)
  /\ run[r].g <= MaxMsgs
  /\ AppendEff(r, IF run[r].g = 0 THEN "nightshift.started" ELSE "agent.message")
  /\ run' = [run EXCEPT ![r].g = run[r].g + 1]
  /\ UNCHANGED <<done, prod, reaped, cfg, agents, ent, nent, teardown, env>>

\* wait_for_completion forwards the guest's terminal event and returns
ForwardTerminal(r, t) ==
  /\ run[r].pc = "wait"
  /\ is_healthy(run[r].entry)
  /\ t = "nightshift.completed" => run[r].g >= 1
  /\ AppendEff(r, t)
  /\ run' = [run EXCEPT ![r].pc = "checkin", ![r].gterm = TRUE]
  /\ UNCHANGED <<done, prod, reaped, cfg, agents, ent, nent, teardown, env>>

\* the guest's /events stream ends without a terminal event: aiter_sse is
\* exhausted and wait_for_completion returns normally
StreamEof(r) ==
  /\ run[r].pc = "wait"
  /\ ~is_healthy(run[r].entry)
  /\ run' = [run EXCEPT ![r].pc = "checkin"]
  /\ UNCHANGED <<bufvars, cfg, agents, ent, nent, teardown, env>>

\* the connection to the guest breaks: wait_for_completion raises
StreamError(r) ==
  /\ run[r].pc = "wait"
  /\ ~is_healthy(run[r].entry)
  /\ InvalidateVm(r)
  /\ UNCHANGED <<bufvars, cfg, ent, nent, teardown, env>>

\* a handler that retries on every attempt
RetryUnbounded(r) ==
  LET e == run[r].entry
  IN /\ run[r].pc = "inval"
     /\ ent' = IF e # 0 THEN [ent EXCEPT ![e] = Destroyed(ent[e])] ELSE ent
     /\ run' = [run EXCEPT ![r].pc = "checkout", ![r].attempt = run[r].attempt + 1,
                            ![r].entry = 0]
     /\ UNCHANGED <<bufvars, cfg, agents, nent, teardown, env>>

\* invalidate_vm's _destroy_entry finishes; "if attempt == 0: continue"
Retry(r) ==
  LET e == run[r].entry
  IN /\ run[r].pc = "inval"
     /\ run[r].attempt = 0
     /\ ent' = IF e # 0 THEN [ent EXCEPT ![e] = Destroyed(ent[e])] ELSE ent
     /\ run' = [run EXCEPT ![r].pc = "checkout", ![r].attempt = 1, ![r].entry = 0]
     /\ UNCHANGED <<bufvars, cfg, agents, nent, teardown, env>>

\* ... second attempt: "raise", the outer handler publishes the error
RetryExhausted(r) ==
  LET e == run[r].entry
  IN /\ run[r].pc = "inval"
     /\ run[r].attempt = 1
     /\ ent' = IF e # 0 THEN [ent EXCEPT ![e] = Destroyed(ent[e])] ELSE ent
     /\ run' = [run EXCEPT ![r].pc = "done", ![r].entry = 0, ![r].synth = TRUE]
     /\ PublishErrorAndCleanup(r)
     /\ UNCHANGED <<cfg, agents, nent, teardown, env>>

\* checkin that forgets notify_all
CheckinNoNotify(rn) == rn

\* VMPool.checkin's notify_all
CheckinNotify(rn) == PoolNotify(rn)

\* VMPool.checkin, then run_task_pooled returns and its finally calls cleanup
Checkin(r) ==
  LET a == run[r].agent
      e == run[r].entry
  IN /\ run[r].pc = "checkin"
     /\ IF InPool(a, e)
        THEN /\ ent' = [ent EXCEPT ![e].busy = FALSE, ![e].idle_task = "sleeping"]
        ELSE UNCHANGED ent
     /\ run' = [CheckinNotify(Freed(run, a, InPool(a, e))) EXCEPT
                  ![r].pc = "done", ![r].entry = 0]
     /\ done' = done \cup {r}
     /\ prod' = [prod EXCEPT ![r] = "closed"]
     /\ subs' = NotifyAll(subs)
     /\ UNCHANGED <<runs, lists, nlists, hist, reaped, cfg, agents, nent, teardown, env>>

\* an idle timer that removes its entry without looking at the pool
IdleExpireUnchecked(e) ==
  LET a == ent[e].agent
  IN /\ e <= nent
     /\ ent[e].idle_task = "sleeping"
     /\ ent' = [ent EXCEPT ![e].idle_task = "expiring"]
     /\ agents' = [agents EXCEPT ![a] = Remove(agents[a], e)]
     /\ teardown' = teardown \cup {e}
     /\ run' = PoolNotify(Freed(run, a, TRUE))
     /\ UNCHANGED <<bufvars, cfg, nent, env>>

\* VMPool._idle_expire after its sleep: under the condition, give up if the
\* entry is gone or busy, else remove it and begin its teardown
IdleExpire(e) ==
  LET a == ent[e].agent
  IN /\ e <= nent
     /\ ent[e].idle_task = "sleeping"
     /\ IF ~InPool(a, e) \/ ent[e].busy
        THEN /\ ent' = [ent EXCEPT ![e].idle_task = "fired"]
             /\ UNCHANGED <<agents, teardown, run>>
        ELSE /\ ent' = [ent EXCEPT ![e].idle_task = "expiring"]
             /\ agents' = [agents EXCEPT ![a] = Remove(agents[a], e)]
             /\ teardown' = teardown \cup {e}
             /\ run' = PoolNotify(Freed(run, a, TRUE))
     /\ UNCHANGED <<bufvars, cfg, nent, env>>

\* an invalidate_agent that tears the entries down while they are still in
\* the pool map
InvalidateAgentInPlace(a) ==
  /\ env.invalidations < MaxInvalidations
  /\ teardown' = teardown \cup {agents[a][i] : i \in 1..Len(agents[a])}
  /\ run' = PoolNotify(Freed(run, a, Len(agents[a]) > 0))
  /\ env' = [env EXCEPT !.invalidations = env.invalidations + 1]
  /\ UNCHANGED <<bufvars, cfg, agents, ent, nent>>

\* VMPool.invalidate_agent: pop the agent's list, notify_all; teardown follows
InvalidateAgent(a) ==
  /\ env.invalidations < MaxInvalidations
  /\ agents' = [agents EXCEPT ![a] = <<>>]
  /\ teardown' = teardown \cup {agents[a][i] : i \in 1..Len(agents[a])}
  /\ run' = PoolNotify(Freed(run, a, Len(agents[a]) > 0))
  /\ env' = [env EXCEPT !.invalidations = env.invalidations + 1]
  /\ UNCHANGED <<bufvars, cfg, ent, nent>>

\* VMPool._destroy_entry of a detached entry (idle expiry, invalidate_agent)
DestroyEntry(e) ==
  /\ e \in teardown
  /\ teardown' = teardown \ {e}
  /\ ent' = [ent EXCEPT ![e] = IF ent[e].idle_task = "expiring"
                                THEN Cancelled(ent[e], cfg[ent[e].agent].stateful)
                                ELSE Destroyed(ent[e])]
  /\ UNCHANGED <<bufvars, cfg, agents, nent, env, run>>

\* the guest process of a VM dies (crash, external kill)
Kill(e) ==
  /\ e <= nent
  /\ is_healthy(e)
  /\ env.kills < MaxKills
  /\ ent' = [ent EXCEPT ![e].alive = FALSE]
  /\ env' = [env EXCEPT !.kills = env.kills + 1]
  /\ UNCHANGED <<bufvars, cfg, agents, nent, teardown, run>>

InitPool ==
  /\ InitBufVars
  /\ InitPoolVars
  /\ InitVmVars
  /\ cfg \in [Agent -> Configs]

\* one step of run r's run_task_pooled, the pool calls it makes included
RunStep(r) ==
  \/ \E a \in Agent : Start(r, a) /\ UNCHANGED vmvars
  \/ CheckoutWarm(r) /\ UNCHANGED vmvars
  \/ CheckoutCold(r) /\ UNCHANGED vmvars
  \/ CheckoutWait(r) /\ UNCHANGED vmvars
  \/ Health(r) /\ UNCHANGED vmvars
  \/ WarmUnhealthyRaise(r) /\ UNCHANGED vmvars
  \/ ColdStartOk(r) /\ UNCHANGED vmvars
  \/ ColdStartFail(r) /\ UNCHANGED vmvars
  \/ SubmitOk(r) /\ UNCHANGED vmvars
  \/ SubmitFail(r) /\ UNCHANGED vmvars
  \/ Forward(r) /\ UNCHANGED vmvars
  \/ \E t \in TERMINAL_EVENTS \ {"nightshift.interrupted"} : ForwardTerminal(r, t) /\ UNCHANGED vmvars
  \/ StreamEof(r) /\ UNCHANGED vmvars
  \/ StreamError(r) /\ UNCHANGED vmvars
  \/ Retry(r) /\ UNCHANGED vmvars
  \/ Checkin(r) /\ UNCHANGED vmvars

\* two concurrent runs, every agent configuration, guest deaths and redeploys
NextPool ==
  \/ \E r \in Runs2 : RunStep(r)
  \/ \E r \in Runs2 : RetryExhausted(r) /\ UNCHANGED vmvars
  \/ \E e \in EntryId : IdleExpire(e) /\ UNCHANGED vmvars
  \/ \E a \in Agent : InvalidateAgent(a) /\ UNCHANGED vmvars
  \/ \E e \in EntryId : DestroyEntry(e) /\ UNCHANGED vmvars
  \/ \E e \in EntryId : Kill(e) /\ UNCHANGED vmvars

SpecPool == InitPool /\ [][NextPool]_vars

\* a server whose platform default cap is 0: VMPool(default_max_vms = 0)
ZeroConfigs == {c \in Configs : ~c.stateful /\ c.max_concurrent_vms <= 1}

InitZero ==
  /\ InitBufVars
  /\ InitVmVars
  /\ agents = [a \in Agent |-> <<>>]
  /\ ent = [e \in EntryId |-> InitEntry]
  /\ nent = 0
  /\ teardown = {}
  /\ env = [kills |-> 0, invalidations |-> 0, default_max_vms |-> 0]
  /\ run = [r \in RunId |-> InitRun]
  /\ cfg \in [Agent -> ZeroConfigs]

SpecZero == InitZero /\ [][NextPool]_vars

\* the event loop runs every coroutine that can proceed, and every guest
\* interaction (probe, cold start, POST /run, the /events stream) ends: a run
\* that can take a step takes one. Guest deaths are under no obligation.
LiveFairness ==
  \A r \in Runs2 : WF_vars(RunStep(r) \/ (RetryExhausted(r) /\ UNCHANGED vmvars))

\* the server whose platform default cap is 0, under that scheduling
SpecLive == InitZero /\ [][NextPool]_vars /\ LiveFairness

Spec == SpecPool

\* three concurrent runs of one stateless agent with max_concurrent_vms 1 or
\* 2, guest deaths included; the agent is not redeployed meanwhile
CapConfigs == {c \in Configs : ~c.stateful /\ c.max_concurrent_vms > 0}

InitCap ==
  /\ InitBufVars
  /\ InitPoolVars
  /\ InitVmVars
  /\ cfg \in [Agent -> CapConfigs]

NextCap ==
  \/ \E r \in RunId : RunStep(r)
  \/ \E r \in RunId : RetryExhausted(r) /\ UNCHANGED vmvars
  \/ \E e \in EntryId : IdleExpire(e) /\ UNCHANGED vmvars
  \/ \E e \in EntryId : DestroyEntry(e) /\ UNCHANGED vmvars
  \/ \E e \in EntryId : Kill(e) /\ UNCHANGED vmvars

SpecCap == InitCap /\ [][NextCap]_vars

\* ------------------------------------------------------------ run_task
\* The one-shot path: _run_agent_task calls run_task when no pool is
\* configured. The run owns a private VM; pc is "l_start" while run_task
\* packages and boots, "l_wait" in wait_for_completion, "l_publish" when that
\* has returned, "l_finally" when the finally block awaits vm.destroy().

\* server.py create_run without a pool: publish StartedEvent, launch run_task
LegacyCreate(r) ==
  /\ run[r].pc = "idle"
  /\ \A q \in RunId : RunOrder[q] < RunOrder[r] => run[q].pc # "idle"
  /\ run' = [run EXCEPT ![r] = [InitRun EXCEPT !.pc = "l_start"]]
  /\ AppendEff(r, "nightshift.started")
  /\ UNCHANGED <<done, prod, reaped, cfg, agents, ent, nent, teardown, env>>

\* run_task: package_agent, copytree and vm.start() succeed
LegacyStartOk(r) ==
  /\ run[r].pc = "l_start"
  /\ run' = [run EXCEPT ![r].pc = "l_wait", ![r].g = 0]
  /\ UNCHANGED <<bufvars, cfg, agents, ent, nent, teardown, env>>

\* ... one of them raises: "except Exception as e: publish(ErrorEvent)"
LegacyStartFail(r) ==
  /\ run[r].pc = "l_start"
  /\ AppendEff(r, "nightshift.error")
  /\ run' = [run EXCEPT ![r].pc = "l_finally", ![r].synth = TRUE]
  /\ UNCHANGED <<done, prod, reaped, cfg, agents, ent, nent, teardown, env>>

\* wait_for_completion forwards one non-terminal guest event (publish_raw)
LegacyForward(r) ==
  /\ run[r].pc = "l_wait"
  /\ run[r].g <= MaxMsgs
  /\ AppendEff(r, IF run[r].g = 0 THEN "nightshift.started" ELSE "agent.message")
  /\ run' = [run EXCEPT ![r].g = run[r].g + 1]
  /\ UNCHANGED <<done, prod, reaped, cfg, agents, ent, nent, teardown, env>>

\* wait_for_completion forwards the guest's terminal event and returns
LegacyForwardTerminal(r, t) ==
  /\ run[r].pc = "l_wait"
  /\ t = "nightshift.completed" => run[r].g >= 1
  /\ AppendEff(r, t)
  /\ run' = [run EXCEPT ![r].pc = "l_publish", ![r].gterm = TRUE]
  /\ UNCHANGED <<done, prod, reaped, cfg, agents, ent, nent, teardown, env>>

\* the guest's /events stream ends without a terminal event: aiter_sse is
\* exhausted and wait_for_completion returns normally
LegacyStreamEof(r) ==
  /\ run[r].pc = "l_wait"
  /\ run' = [run EXCEPT ![r].pc = "l_publish"]
  /\ UNCHANGED <<bufvars, cfg, agents, ent, nent, teardown, env>>

\* the connection to the guest breaks: wait_for_completion raises and the
\* handler publishes the error
LegacyStreamError(r) ==
  /\ run[r].pc = "l_wait"
  /\ AppendEff(r, "nightshift.error")
  /\ run' = [run EXCEPT ![r].pc = "l_finally", ![r].synth = TRUE]
  /\ UNCHANGED <<done, prod, reaped, cfg, agents, ent, nent, teardown, env>>

\* run_task after wait_for_completion: "await log.publish(run_id, CompletedEvent())"
LegacyPublishCompleted(r) ==
  /\ run[r].pc = "l_publish"
  /\ AppendEff(r, "nightshift.completed")
  /\ run' = [run EXCEPT ![r].pc = "l_finally"]
  /\ UNCHANGED <<done, prod, reaped, cfg, agents, ent, nent, teardown, env>>

\* run_task's finally: vm.destroy() returns, the package and staging
\* directories are removed, "await log.cleanup(run_id)"
LegacyDestroyOk(r) ==
  /\ run[r].pc = "l_finally"
  /\ run' = [run EXCEPT ![r].pc = "done"]
  /\ done' = done \cup {r}
  /\ prod' = [prod EXCEPT ![r] = "closed"]
  /\ subs' = NotifyAll(subs)
  /\ UNCHANGED <<runs, lists, nlists, hist, reaped, cfg, agents, ent, nent, teardown, env>>

\* ... vm.destroy() raises (a subprocess cannot be spawned, a file cannot be
\* removed): the exception leaves the finally block before log.cleanup, and
\* _run_agent_task records it
LegacyDestroyRaise(r) ==
  /\ run[r].pc = "l_finally"
  /\ run' = [run EXCEPT ![r].pc = "done"]
  /\ UNCHANGED <<bufvars, cfg, agents, ent, nent, teardown, env>>

InitLegacy ==
  /\ InitBufVars
  /\ InitPoolVars
  /\ InitVmVars
  /\ cfg = [a \in Agent |-> [stateful |-> FALSE, max_concurrent_vms |-> 0]]

\* three concurrent runs of a server without a pool
LegacyStep(r) ==
  \/ LegacyCreate(r) /\ UNCHANGED vmvars
  \/ LegacyStartOk(r) /\ UNCHANGED vmvars
  \/ LegacyStartFail(r) /\ UNCHANGED vmvars
  \/ LegacyForward(r) /\ UNCHANGED vmvars
  \/ \E t \in TERMINAL_EVENTS \ {"nightshift.interrupted"} : LegacyForwardTerminal(r, t) /\ UNCHANGED vmvars
  \/ LegacyStreamEof(r) /\ UNCHANGED vmvars
  \/ LegacyStreamError(r) /\ UNCHANGED vmvars
  \/ LegacyPublishCompleted(r) /\ UNCHANGED vmvars
  \/ LegacyDestroyOk(r) /\ UNCHANGED vmvars
  \/ LegacyDestroyRaise(r) /\ UNCHANGED vmvars

NextLegacy == \E r \in RunId : LegacyStep(r)

SpecLegacy == InitLegacy /\ [][NextLegacy]_vars

\* ------------------------------------------------------------ FirecrackerVM
\* The pool's steps together with what they do to the VM handles and to the
\* host: FirecrackerVM.start / copy_workspace_out / destroy (vm/manager.py),
\* the TAP and index allocator (vm/network.py), the overlay (vm/rootfs.py).

\* network.py _allocate_index: the least index from 1 that is not allocated
allocate_index(al) == Min(Index \ al)

\* network.py create_tap: guest_ip = f"172.16.{vm_index}.2"
GuestIp(idx) == <<172, 16, idx, 2>>

\* network.py create_tap for the VM of entry e: allocate an index, create the
\* TAP device with the index's addresses, add the NAT rule of the guest IP
create_tap(hs, e) ==
  LET idx == allocate_index(hs.allocated)
  IN [hs EXCEPT !.allocated = @ \cup {idx}, !.taps[e] = idx, !.nat[idx] = @ + 1,
                !.fwd = @ \cup {e}]

\* network.py destroy_tap(config): delete one NAT rule of config.guest_ip (if
\* there is one) and the FORWARD rules of config.tap_name, delete the device
\* config.tap_name, release config.vm_index
destroy_tap(hs, e, idx) ==
  [hs EXCEPT !.nat[idx] = IF @ > 0 THEN @ - 1 ELSE 0,
             !.fwd = @ \ {e},
             !.taps[e] = 0,
             !.allocated = @ \ {idx}]

\* the steps of _cold_start / start() that may raise
StartFailures == {"package", "overlay", "tap", "spawn", "boot"}

\* FirecrackerVM.start on (host, handle) up to the step that raises: "overlay"
\* = create_overlay, "tap" = create_tap after its _allocate_index, "spawn" =
\* create_subprocess_exec, "boot" = socket wait, an API PUT or the health
\* wait; "none" = start returns
start(hs, h, e, f) ==
  LET h1 == [h EXCEPT !.dir = TRUE]
      s1 == [hs EXCEPT !.dirs = @ \cup {e}]
      h2 == [h1 EXCEPT !.overlay = TRUE]
      s2 == [s1 EXCEPT !.images = @ \cup {e}]
      s3x == [s2 EXCEPT !.allocated = @ \cup {allocate_index(s2.allocated)}]
      h3 == [h2 EXCEPT !.tap = allocate_index(s2.allocated)]
      s3 == create_tap(s2, e)
      h4 == [h3 EXCEPT !.proc = TRUE]
      s4 == [s3 EXCEPT !.procs = @ \cup {e}]
  IN CASE f = "overlay" -> [host |-> s1, handle |-> h1]
       [] f = "tap" -> [host |-> s3x, handle |-> h2]
       [] f = "spawn" -> [host |-> s3, handle |-> h3]
       [] f \in {"boot", "none"} -> [host |-> s4, handle |-> h4]

\* FirecrackerVM.destroy: kill the process, destroy_tap(self._tap),
\* destroy_overlay, remove the scratch directory, each step guarded by the
\* handle's field; no field is reset
destroy(hs, h, e) ==
  LET k == [hs EXCEPT !.procs = IF h.proc THEN @ \ {e} ELSE @]
      t == IF h.tap # 0 THEN destroy_tap(k, e, h.tap) ELSE k
  IN [t EXCEPT !.images = IF h.overlay \/ h.dir THEN @ \ {e} ELSE @,
               !.dirs = IF h.dir THEN @ \ {e} ELSE @]

\* rootfs.copy_workspace_out: "gone" = the overlay image cannot be mounted
\* because it no longer exists, "failed" = mount or rsync fails (ok = FALSE)
extract_outcome(hs, e, ok) ==
  IF e \notin hs.images THEN "gone" ELSE IF ok THEN "ok" ELSE "failed"

\* FirecrackerVM.copy_workspace_out: stop the guest (SendCtrlAltDel, else
\* kill), then rsync --delete the image's /workspace over the agent's
\* workspace directory (the guest's tree is the token e)
copy_workspace_out(hs, h, e, a, ok) ==
  [hs EXCEPT !.procs = IF h.proc THEN @ \ {e} ELSE @,
             !.workspace[a] = IF extract_outcome(hs, e, ok) = "ok" THEN e ELSE @]

\* a teardown that destroys the VM before it extracts the workspace
destroy_entry_destroy_first(e, ok) ==
  LET a == ent[e].agent
      d == destroy(host, vmh[e], e)
  IN IF ent[e].vm
     THEN /\ host' = [(IF cfg[a].stateful THEN copy_workspace_out(d, vmh[e], e, a, ok) ELSE d)
                       EXCEPT !.staged = @ \ {e}]
          /\ vmh' = [vmh EXCEPT ![e].calls = @ + 1, ![e].extract =
                       IF cfg[a].stateful THEN extract_outcome(d, e, ok) ELSE @]
          /\ UNCHANGED <<envs, sidevars>>
     ELSE /\ host' = [host EXCEPT !.staged = @ \ {e}]
          /\ UNCHANGED <<vmh, envs, sidevars>>

\* VMPool._destroy_entry on the host: "if entry.vm:" copy_workspace_out when
\* the entry is stateful (its exception is logged), then vm.destroy(); then
\* the entry's package and staging directories are removed
destroy_entry(e, ok) ==
  LET a == ent[e].agent
      x == IF cfg[a].stateful THEN copy_workspace_out(host, vmh[e], e, a, ok) ELSE host
  IN IF ent[e].vm
     THEN /\ host' = [destroy(x, vmh[e], e) EXCEPT !.staged = @ \ {e}]
          /\ vmh' = [vmh EXCEPT ![e].calls = @ + 1, ![e].extract =
                       IF cfg[a].stateful THEN extract_outcome(host, e, ok) ELSE @]
          /\ UNCHANGED <<envs, sidevars>>
     ELSE /\ host' = [host EXCEPT !.staged = @ \ {e}]
          /\ UNCHANGED <<vmh, envs, sidevars>>

\* dict.update: the names b holds take b's values
update(a, b) == [k \in EnvKeys |-> IF b[k] # NoVal THEN b[k] ELSE a[k]]

\* the server process's os.environ
OsEnviron == [k \in EnvKeys |-> IF k = "API_KEY" THEN "operator-key" ELSE NoVal]

\* a builder that merges runtime_env whether or not a pool is configured
build_registered_agent_merging(stored_env, runtime_env, pooled) ==
  update(stored_env, runtime_env)

\* server.py _build_registered_agent, the env of the AgentConfig it returns:
\* the stored env, with runtime_env merged in only when no pool is configured
build_registered_agent(stored_env, runtime_env, pooled) ==
  IF runtime_env # NoEnv /\ ~pooled THEN update(stored_env, runtime_env) ELSE stored_env

\* pool.py _build_static_env_vars: the truthy os.environ values of the
\* forward_env names, then agent.config.env, then the NIGHTSHIFT_* variables
build_static_env_vars(forward_env, agent_env) ==
  LET fwd == [k \in EnvKeys |-> IF k \in forward_env THEN OsEnviron[k] ELSE NoVal]
      platform == [k \in EnvKeys |->
                     CASE k = "NIGHTSHIFT_WORKSPACE" -> "/workspace"
                       [] k = "NIGHTSHIFT_AGENT_DIR" -> AGENT_PKG_DIR
                       [] OTHER -> NoVal]
  IN update(update(fwd, agent_env), platform)

\* _cold_start for run r's placeholder e: VMConfig(env_vars = the static env
\* of the run's RegisteredAgent); create_overlay writes it to the image's
\* /etc/nightshift/env, the guest process starts with it
cold_env(r, e) ==
  LET ev == build_static_env_vars(envs.forward_env[run[r].agent], envs.reg[r])
  IN [envs EXCEPT !.baked[e] = ev, !.guest[e] = ev]

\* checkout's cold start succeeds: _cold_start made the package and staging
\* directories and ran vm.start() to its end
VmColdStartOk(r) ==
  LET e == run[r].entry
      s == start(host, vmh[e], e, "none")
  IN /\ ColdStartOk(r)
     /\ host' = [s.host EXCEPT !.staged = @ \cup {e}]
     /\ vmh' = [vmh EXCEPT ![e] = s.handle]
     /\ envs' = cold_env(r, e)
     /\ UNCHANGED sidevars

\* ... _cold_start raises: in package_agent / copytree, or in vm.start()
VmColdStartFail(r) ==
  LET e == run[r].entry
  IN /\ ColdStartFail(r)
     /\ \E f \in StartFailures :
          IF f = "package" THEN UNCHANGED vmvars
          ELSE /\ host' = [start(host, vmh[e], e, f).host EXCEPT !.staged = @ \cup {e}]
               /\ vmh' = [vmh EXCEPT ![e] = start(host, vmh[e], e, f).handle]
               /\ envs' = cold_env(r, e)
               /\ UNCHANGED sidevars

\* _remove_entry's _destroy_entry of the unhealthy warm entry
VmWarmUnhealthyRaise(r) ==
  /\ WarmUnhealthyRaise(r)
  /\ \E ok \in BOOLEAN : destroy_entry(run[r].entry, ok)

\* invalidate_vm's _destroy_entry "if target", first attempt
VmRetry(r) ==
  /\ Retry(r)
  /\ IF run[r].entry # 0 THEN \E ok \in BOOLEAN : destroy_entry(run[r].entry, ok)
     ELSE UNCHANGED vmvars

\* ... second attempt
VmRetryExhausted(r) ==
  /\ RetryExhausted(r)
  /\ IF run[r].entry # 0 THEN \E ok \in BOOLEAN : destroy_entry(run[r].entry, ok)
     ELSE UNCHANGED vmvars

\* _destroy_entry of an entry detached by invalidate_agent or shutdown
VmDestroyEntry(e) ==
  /\ DestroyEntry(e)
  /\ \E ok \in BOOLEAN : destroy_entry(e, ok)

\* VMPool.shutdown (server.py lifespan exit): clear the pool, notify_all; the
\* teardown of every detached entry follows
shutdown ==
  /\ ~host.down
  /\ agents' = [a \in Agent |-> <<>>]
  /\ teardown' = teardown \cup {e \in EntryId : \E a \in Agent : InPool(a, e)}
  /\ run' = PoolNotify([r \in RunId |->
               Freed(run, run[r].agent, Len(agents[run[r].agent]) > 0)[r]])
  /\ host' = [host EXCEPT !.down = TRUE]
  /\ UNCHANGED <<bufvars, cfg, ent, nent, env, vmh, envs, sidevars>>

\* a stateful agent
VmConfigs == {c \in Configs : c.stateful}

InitVm ==
  /\ InitBufVars
  /\ InitPoolVars
  /\ InitVmVars
  /\ cfg \in [Agent -> VmConfigs]

\* one step of run r's run_task_pooled with its effects on the host; no run
\* is created once the server is shutting down
VmRunStep(r) ==
  \/ \E a \in Agent : ~host.down /\ Start(r, a) /\ UNCHANGED vmvars
  \/ CheckoutWarm(r) /\ UNCHANGED vmvars
  \/ CheckoutCold(r) /\ UNCHANGED vmvars
  \/ CheckoutWait(r) /\ UNCHANGED vmvars
  \/ Health(r) /\ UNCHANGED vmvars
  \/ VmWarmUnhealthyRaise(r)
  \/ VmColdStartOk(r)
  \/ VmColdStartFail(r)
  \/ SubmitOk(r) /\ UNCHANGED vmvars
  \/ SubmitFail(r) /\ UNCHANGED vmvars
  \/ Forward(r) /\ UNCHANGED vmvars
  \/ \E t \in TERMINAL_EVENTS \ {"nightshift.interrupted"} : ForwardTerminal(r, t) /\ UNCHANGED vmvars
  \/ StreamEof(r) /\ UNCHANGED vmvars
  \/ StreamError(r) /\ UNCHANGED vmvars
  \/ VmRetry(r)
  \/ VmRetryExhausted(r)
  \/ Checkin(r) /\ UNCHANGED vmvars

\* two runs of a stateful agent with redeploys, server shutdown and a guest
\* death; the idle timeout does not elapse meanwhile
NextVm ==
  \/ \E r \in Runs2 : VmRunStep(r)
  \/ \E a \in Agent : InvalidateAgent(a) /\ UNCHANGED vmvars
  \/ shutdown
  \/ \E e \in EntryId : VmDestroyEntry(e)
  \/ \E e \in EntryId : env.kills < MaxVmKills /\ Kill(e) /\ UNCHANGED vmvars

SpecVm == InitVm /\ [][NextVm]_vars

\* ------------------------------------------------------------ VM handles
\* The callers of FirecrackerVM seen from the handles: every handle is
\* started once (run_task, _cold_start); destroy() is called on it by
\* run_task's finally block or by _destroy_entry, and the pool may call it a
\* second time (_remove_entry destroys an unhealthy entry that
\* invalidate_agent or shutdown has already detached and destroyed).

\* start() on the fresh handle v returns (f = "none") or raises at step f
vm_start(v, f) ==
  /\ ~vmh[v].dir
  /\ \A w \in EntryId : w < v => vmh[w].dir
  /\ host' = start(host, vmh[v], v, f).host
  /\ vmh' = [vmh EXCEPT ![v] = start(host, vmh[v], v, f).handle]
  /\ UNCHANGED <<bufvars, poolvars, envs, sidevars>>

\* destroy() on a handle whose start() was called
vm_destroy(v) ==
  /\ vmh[v].dir
  /\ vmh[v].calls < MaxDestroyCalls
  /\ host' = destroy(host, vmh[v], v)
  /\ vmh' = [vmh EXCEPT ![v].calls = @ + 1]
  /\ UNCHANGED <<bufvars, poolvars, envs, sidevars>>

InitNet ==
  /\ InitBufVars
  /\ InitPoolVars
  /\ InitVmVars
  /\ cfg = [a \in Agent |-> [stateful |-> FALSE, max_concurrent_vms |-> 0]]

NextNet ==
  \/ \E v \in EntryId, f \in (StartFailures \ {"package"}) \cup {"none"} : vm_start(v, f)
  \/ \E v \in EntryId : vm_destroy(v)

SpecNet == InitNet /\ [][NextNet]_vars

\* ------------------------------------------------------------ run environment
\* Pooled runs with the environment maps they carry: the server has a pool
\* (_vm_pool is set), so create_run builds the RegisteredAgent with
\* pooled = TRUE and _run_agent_task calls run_task_pooled.

\* the runtime_env dicts a run request carries in its "env" field
RuntimeEnvs ==
  {NoEnv,
   [NoEnv EXCEPT !["API_KEY"] = "run-secret"],
   [NoEnv EXCEPT !["API_KEY"] = "run-secret", !["MODE"] = "debug",
                 !["NIGHTSHIFT_WORKSPACE"] = "/tmp"]}

\* the env dicts of a deployed agent's configuration
AgentEnvs == {NoEnv, [NoEnv EXCEPT !["MODE"] = "prod"]}

\* server.py create_run with body.env = renv: _build_registered_agent, then
\* _run_agent_task(..., runtime_env = renv) is launched
EnvCreateRun(r, a, renv) ==
  /\ Start(r, a)
  /\ envs' = [envs EXCEPT !.req[r] = renv,
                           !.reg[r] = build_registered_agent(envs.env[a], renv, TRUE)]
  /\ UNCHANGED <<vmh, host, sidevars>>

\* FirecrackerVM.submit_run(prompt, run_id, env_vars = runtime_env): POST /run
\* with body {prompt, run_id, env}; the guest's handler copies body.env into
\* its os.environ (agent/entry.py run)
EnvSubmitOk(r) ==
  /\ SubmitOk(r)
  /\ envs' = [envs EXCEPT !.body[r] = envs.req[r],
                           !.guest[run[r].entry] = update(@, envs.req[r])]
  /\ UNCHANGED <<vmh, host, sidevars>>

\* a stateless agent with cap 1, any stored env and forward_env
InitEnv ==
  /\ InitBufVars
  /\ InitPoolVars
  /\ InitSideVars
  /\ cfg = [a \in Agent |-> [stateful |-> FALSE, max_concurrent_vms |-> 1]]
  /\ vmh = [e \in EntryId |-> InitHandle]
  /\ host = [allocated |-> {}, taps |-> [e \in EntryId |-> 0],
             nat |-> [i \in Index |-> 0], procs |-> {}, dirs |-> {}, images |-> {},
             workspace |-> [a \in Agent |-> 0], fwd |-> {}, staged |-> {},
             down |-> FALSE, swept |-> TRUE]
  /\ \E ae \in [Agent -> AgentEnvs], fe \in [Agent -> SUBSET {"API_KEY"}] :
        envs = [InitEnvs EXCEPT !.env = ae, !.forward_env = fe]

EnvRunStep(r) ==
  \/ \E a \in Agent, renv \in RuntimeEnvs : EnvCreateRun(r, a, renv)
  \/ CheckoutWarm(r) /\ UNCHANGED vmvars
  \/ CheckoutCold(r) /\ UNCHANGED vmvars
  \/ CheckoutWait(r) /\ UNCHANGED vmvars
  \/ Health(r) /\ UNCHANGED vmvars
  \/ VmWarmUnhealthyRaise(r)
  \/ VmColdStartOk(r)
  \/ VmColdStartFail(r)
  \/ EnvSubmitOk(r)
  \/ SubmitFail(r) /\ UNCHANGED vmvars
  \/ Forward(r) /\ UNCHANGED vmvars
  \/ \E t \in TERMINAL_EVENTS \ {"nightshift.interrupted"} : ForwardTerminal(r, t) /\ UNCHANGED vmvars
  \/ StreamEof(r) /\ UNCHANGED vmvars
  \/ StreamError(r) /\ UNCHANGED vmvars
  \/ VmRetry(r)
  \/ Checkin(r) /\ UNCHANGED vmvars

\* two runs of the agent with their own runtime_env, and redeploys: the
\* second run reuses the first run's VM or boots its own
NextEnv ==
  \/ \E r \in Runs2 : EnvRunStep(r)
  \/ \E a \in Agent : InvalidateAgent(a) /\ UNCHANGED vmvars
  \/ \E e \in EntryId : VmDestroyEntry(e)

SpecEnv == InitEnv /\ [][NextEnv]_vars

\* ------------------------------------------------------------ guest process
\* Pooled runs together with what happens inside the guest of each VM
\* (agent/entry.py serve_multi_run) and with the rows the server keeps for
\* the runs (server.py create_run / _run_agent_task, registry.py). The guest
\* is an asyncio loop of its own: in _execute_run the publish of the run's
\* terminal event, cleanup(run_id) and the release of _run_lock never
\* suspend, so the guest's stream_sse hands the terminal frame to the host
\* only when the lock is free again.

\* the variables of the host side of a VM
hostvars == <<vmh, host, envs>>

\* agent messages a guest run emits after its StartedEvent
MaxAgentMsgs == 1

\* entry.py:93-95: a message is published under the type its own "type"
\* field names; the agent is user code and may name any type
AgentMessageTypes == {"agent.message", "nightshift.completed"}

\* server.py create_run: registry.create_run inserts the row with status
\* 'started', then StartedEvent is published and _run_agent_task launched
SrvCreateRun(r, a) ==
  /\ Start(r, a)
  /\ registry' = [registry EXCEPT ![r] = [status |-> "started", error |-> "none"]]
  /\ UNCHANGED <<hostvars, gproc, timers>>

\* registry.py complete_run: status = "error" if error else "completed"
complete_run(rows, r, error) ==
  [rows EXCEPT ![r] = [status |-> IF error # "none" THEN "error" ELSE "completed",
                       error |-> error]]

\* _run_agent_task after run_task_pooled has returned: run_task_pooled
\* handles every Exception itself, so the call returns normally and
\* "await registry.complete_run(run_id)" runs without an error string
SrvCompleteRun(r) ==
  /\ run[r].pc = "done"
  /\ registry[r].status = "started"
  /\ registry' = complete_run(registry, r, "none")
  /\ UNCHANGED <<bufvars, poolvars, hostvars, gproc, timers>>

\* the guest's POST /run handler on a request with a prompt: 409 while
\* _run_lock is held, else _current_run_id = run_id, the _execute_run task
\* is created, 202
post_run_status(gp) == IF gp.run_lock THEN 409 ELSE 202

post_run(gp, r) ==
  IF gp.run_lock THEN gp ELSE [gp EXCEPT !.current_run_id = r, !.task = "created"]

\* submit_run is answered 202
GuestSubmitOk(r) ==
  LET e == run[r].entry
  IN /\ SubmitOk(r)
     /\ post_run_status(gproc[e]) = 202
     /\ gproc' = [gproc EXCEPT ![e] = post_run(@, r)]
     /\ UNCHANGED <<hostvars, timers, registry>>

\* submit_run is answered 409 and raises; the handle is invalidated
GuestSubmitBusy(r) ==
  LET e == run[r].entry
  IN /\ run[r].pc = "submit"
     /\ is_healthy(e)
     /\ post_run_status(gproc[e]) = 409
     /\ InvalidateVm(r)
     /\ UNCHANGED <<bufvars, cfg, ent, nent, teardown, env, vmvars>>

\* the guest's _execute_run task starts: "async with _run_lock"
GuestTaskStart(e) ==
  /\ e <= nent
  /\ is_healthy(e)
  /\ gproc[e].task = "created"
  /\ gproc' = [gproc EXCEPT ![e].task = "running", ![e].run_lock = TRUE]
  /\ UNCHANGED <<bufvars, poolvars, hostvars, timers, registry>>

\* the run's guest task is inside the lock
GuestRunning(r) ==
  /\ run[r].entry # 0
  /\ gproc[run[r].entry].task = "running"
  /\ gproc[run[r].entry].current_run_id = r

\* the guest publishes its StartedEvent and the host forwards it
GuestForward(r) ==
  /\ GuestRunning(r)
  /\ Forward(r)
  /\ UNCHANGED vmvars

\* the agent yields a message of type t; the guest's stream_sse and the
\* host's wait_for_completion both return after an event of a terminal
\* type, while the agent generator and _execute_run go on under the lock
GuestMessage(r, t) ==
  /\ run[r].pc = "wait"
  /\ is_healthy(run[r].entry)
  /\ GuestRunning(r)
  /\ run[r].g >= 1 /\ run[r].g <= MaxAgentMsgs
  /\ AppendEff(r, t)
  /\ run' = IF t \in TERMINAL_EVENTS
            THEN [run EXCEPT ![r].pc = "checkin", ![r].gterm = TRUE]
            ELSE [run EXCEPT ![r].g = run[r].g + 1]
  /\ UNCHANGED <<done, prod, reaped, cfg, agents, ent, nent, teardown, env, vmvars>>

\* _execute_run publishes CompletedEvent or ErrorEvent, calls cleanup and
\* leaves the lock; the host forwards the terminal event
GuestTerminal(r, t) ==
  /\ GuestRunning(r)
  /\ ForwardTerminal(r, t)
  /\ gproc' = [gproc EXCEPT ![run[r].entry].task = "none", ![run[r].entry].run_lock = FALSE]
  /\ UNCHANGED <<hostvars, timers, registry>>

\* _execute_run ends after the host has stopped listening to its run
GuestTaskEnd(e) ==
  /\ e <= nent
  /\ is_healthy(e)
  /\ gproc[e].task = "running"
  /\ \A r \in RunId : ~(run[r].pc = "wait" /\ run[r].entry = e)
  /\ gproc' = [gproc EXCEPT ![e].task = "none", ![e].run_lock = FALSE]
  /\ UNCHANGED <<bufvars, poolvars, hostvars, timers, registry>>

\* a stateless agent with max_concurrent_vms = 1: the second run reuses the
\* first run's VM
InitSrv ==
  /\ InitBufVars
  /\ InitPoolVars
  /\ InitVmVars
  /\ cfg = [a \in Agent |-> [stateful |-> FALSE, max_concurrent_vms |-> 1]]

SrvRunStep(r) ==
  \/ \E a \in Agent : SrvCreateRun(r, a)
  \/ CheckoutWarm(r) /\ UNCHANGED vmvars
  \/ CheckoutCold(r) /\ UNCHANGED vmvars
  \/ CheckoutWait(r) /\ UNCHANGED vmvars
  \/ Health(r) /\ UNCHANGED vmvars
  \/ WarmUnhealthyRaise(r) /\ UNCHANGED vmvars
  \/ ColdStartOk(r) /\ UNCHANGED vmvars
  \/ ColdStartFail(r) /\ UNCHANGED vmvars
  \/ GuestSubmitOk(r)
  \/ GuestSubmitBusy(r)
  \/ SubmitFail(r) /\ UNCHANGED vmvars
  \/ GuestForward(r)
  \/ \E t \in AgentMessageTypes : GuestMessage(r, t)
  \/ \E t \in TERMINAL_EVENTS \ {"nightshift.interrupted"} : GuestTerminal(r, t)
  \/ StreamEof(r) /\ UNCHANGED vmvars
  \/ StreamError(r) /\ UNCHANGED vmvars
  \/ Retry(r) /\ UNCHANGED vmvars
  \/ RetryExhausted(r) /\ UNCHANGED vmvars
  \/ Checkin(r) /\ UNCHANGED vmvars
  \/ SrvCompleteRun(r)

\* two runs of the agent, guest deaths; no redeploy, and the idle timeout
\* does not elapse meanwhile
NextSrv ==
  \/ \E r \in Runs2 : SrvRunStep(r)
  \/ \E e \in EntryId : GuestTaskStart(e)
  \/ \E e \in EntryId : GuestTaskEnd(e)
  \/ \E e \in EntryId : Kill(e) /\ UNCHANGED vmvars

SpecSrv == InitSrv /\ [][NextSrv]_vars

\* ------------------------------------------------------------ idle timers
\* The pool's steps together with the _idle_expire tasks they create and
\* cancel. A task is (entry, n): the n-th task created for the entry. Time is
\* not measured: the sleep of a task that is alive may end at any moment.
\* Task.cancel() on a task suspended in asyncio.sleep makes the sleep raise
\* CancelledError, also when the sleep's timer has already fired and the task
\* has not run yet; _idle_expire catches it and returns.

\* a checkout that clears the idle_task field and leaves the task running
cancel_idle_forgetting(tm, e) == [tm EXCEPT !.ref[e] = 0]

\* "if e.idle_task: e.idle_task.cancel(); e.idle_task = None" (checkout,
\* _destroy_entry)
cancel_idle(tm, e) ==
  [tm EXCEPT !.alive = @ \ {<<e, tm.ref[e]>>}, !.ref[e] = 0]

\* checkin: "e.idle_task = asyncio.create_task(self._idle_expire(...))"; the
\* field is overwritten, the task it referred to is not cancelled
arm_idle(tm, e) ==
  [tm EXCEPT !.armed[e] = @ + 1, !.alive = @ \cup {<<e, tm.armed[e] + 1>>},
             !.ref[e] = tm.armed[e] + 1]

\* checkout's warm hit cancels the timer of the entry it takes
TimerCheckoutWarm(r) ==
  /\ CheckoutWarm(r)
  /\ timers' = cancel_idle(timers, agents[run[r].agent][Min(IdleIdx(run[r].agent))])
  /\ UNCHANGED <<hostvars, gproc, registry>>

\* checkin arms a timer for the entry it finds
TimerCheckin(r) ==
  /\ Checkin(r)
  /\ timers' = IF InPool(run[r].agent, run[r].entry) THEN arm_idle(timers, run[r].entry)
               ELSE timers
  /\ UNCHANGED <<hostvars, gproc, registry>>

\* the sleep of task (e, n) ends and the task runs: it returns, or removes
\* the entry and goes on to _destroy_entry
TimerIdleExpire(e, n) ==
  /\ <<e, n>> \in timers.alive
  /\ IdleExpire(e)
  /\ timers' = [timers EXCEPT !.alive = @ \ {<<e, n>>}]
  /\ UNCHANGED <<hostvars, gproc, registry>>

\* _destroy_entry of a detached entry
TimerDestroyEntry(e) ==
  /\ DestroyEntry(e)
  /\ timers' = cancel_idle(timers, e)
  /\ UNCHANGED <<hostvars, gproc, registry>>

\* _destroy_entry in _remove_entry and invalidate_vm
TimerWarmUnhealthyRaise(r) ==
  /\ WarmUnhealthyRaise(r)
  /\ timers' = cancel_idle(timers, run[r].entry)
  /\ UNCHANGED <<hostvars, gproc, registry>>

TimerRetry(r) ==
  /\ Retry(r)
  /\ timers' = IF run[r].entry # 0 THEN cancel_idle(timers, run[r].entry) ELSE timers
  /\ UNCHANGED <<hostvars, gproc, registry>>

TimerRetryExhausted(r) ==
  /\ RetryExhausted(r)
  /\ timers' = IF run[r].entry # 0 THEN cancel_idle(timers, run[r].entry) ELSE timers
  /\ UNCHANGED <<hostvars, gproc, registry>>

TimerRunStep(r) ==
  \/ \E a \in Agent : Start(r, a) /\ UNCHANGED vmvars
  \/ TimerCheckoutWarm(r)
  \/ CheckoutCold(r) /\ UNCHANGED vmvars
  \/ CheckoutWait(r) /\ UNCHANGED vmvars
  \/ Health(r) /\ UNCHANGED vmvars
  \/ TimerWarmUnhealthyRaise(r)
  \/ ColdStartOk(r) /\ UNCHANGED vmvars
  \/ ColdStartFail(r) /\ UNCHANGED vmvars
  \/ SubmitOk(r) /\ UNCHANGED vmvars
  \/ SubmitFail(r) /\ UNCHANGED vmvars
  \/ Forward(r) /\ UNCHANGED vmvars
  \/ \E t \in TERMINAL_EVENTS \ {"nightshift.interrupted"} : ForwardTerminal(r, t) /\ UNCHANGED vmvars
  \/ StreamEof(r) /\ UNCHANGED vmvars
  \/ StreamError(r) /\ UNCHANGED vmvars
  \/ TimerRetry(r)
  \/ TimerRetryExhausted(r)
  \/ TimerCheckin(r)

\* two runs of a stateless agent with cap 1 or 2, guest deaths, a redeploy,
\* and idle timers that fire at any moment
NextTimer ==
  \/ \E r \in Runs2 : TimerRunStep(r)
  \/ \E e \in EntryId, n \in 1..Cardinality(Runs2) : TimerIdleExpire(e, n)
  \/ \E a \in Agent : InvalidateAgent(a) /\ UNCHANGED vmvars
  \/ \E e \in EntryId : TimerDestroyEntry(e)
  \/ \E e \in EntryId : Kill(e) /\ UNCHANGED vmvars

SpecTimer == InitCap /\ [][NextTimer]_vars

\* ------------------------------------------------------------ server start
\* server.py lifespan calls cleanup_stale_taps() before it creates the pool:
\* the process is new (_allocated_indices is empty, no VM exists) and the host
\* holds whatever a previous server process left behind.

\* network.py cleanup_stale_taps: "ip -o link show type tun" lists the TAP
\* devices; when it prints nothing the function returns at once. Otherwise
\* every tap-* device is deleted, then every POSTROUTING rule with "172.16."
\* and MASQUERADE, then every FORWARD rule naming a tap- device (each listed
\* copy of a rule is deleted once)
cleanup_stale_taps(hs) ==
  IF \A e \in EntryId : hs.taps[e] = 0
  THEN hs
  ELSE [hs EXCEPT !.taps = [e \in EntryId |-> 0],
                  !.nat = [i \in Index |-> 0],
                  !.fwd = {}]

\* the startup call
CleanupStale ==
  /\ ~host.swept
  /\ host' = [cleanup_stale_taps(host) EXCEPT !.swept = TRUE]
  /\ UNCHANGED <<bufvars, poolvars, vmh, envs, sidevars>>

\* a dead server process left any combination of TAP devices (with any
\* address index), NAT rules of guest IPs and FORWARD rules of TAP names
InitStale ==
  /\ InitBufVars
  /\ InitPoolVars
  /\ cfg = [a \in Agent |-> [stateful |-> FALSE, max_concurrent_vms |-> 0]]
  /\ InitSideVars
  /\ vmh = [e \in EntryId |-> InitHandle]
  /\ envs = InitEnvs
  /\ \E tp \in [EntryId -> {0} \cup Index], nt \in [Index -> 0..MaxStaleRules],
        fw \in SUBSET EntryId :
        host = [allocated |-> {}, taps |-> tp, nat |-> nt, procs |-> {}, dirs |-> {},
                images |-> {}, workspace |-> [a \in Agent |-> 0], fwd |-> fw,
                staged |-> {}, down |-> FALSE, swept |-> FALSE]

NextStale == CleanupStale

SpecStale == InitStale /\ [][NextStale]_vars

\* ------------------------------------------------------------ properties

IsPrefix(p, q) == Len(p) <= Len(q) /\ \A i \in 1..Len(p) : p[i] = q[i]

\* position of the first terminal record of a sequence (0 = none)
FirstTerminal(q) ==
  IF \E i \in 1..Len(q) : q[i][1] \in TERMINAL_EVENTS
  THEN CHOOSE i \in 1..Len(q) : /\ q[i][1] \in TERMINAL_EVENTS
                                /\ \A j \in 1..(i - 1) : q[j][1] \notin TERMINAL_EVENTS
  ELSE 0

\* C3: every subscriber to run r has received exactly e_1..e_k of r's append
\* sequence, in order; a stream that has ended ended on the first terminal
\* event or because of cleanup
C3_PrefixDelivery ==
  \A s \in Sub : subs[s].pc # "new" =>
     /\ IsPrefix(subs[s].recv, Items(subs[s].kind, hist[subs[s].run]))
     /\ subs[s].pc = "closed" =>
          \/ subs[s].why = "done"
          \/ Len(subs[s].recv) = FirstTerminal(hist[subs[s].run])

IsSse(s) == subs[s].kind \in {"sse", "http"}

\* C4: stream_sse yields the first terminal event as its last frame and then
\* terminates: a terminal frame is never followed by another frame, and a
\* stream_sse that returned on a terminal event holds it as its last frame
C4_SseStopsAtTerminal ==
  \A s \in Sub : IsSse(s) =>
     /\ \A i \in 1..(Len(subs[s].recv) - 1) : subs[s].recv[i].event \notin TERMINAL_EVENTS
     /\ (Len(subs[s].recv) > 0 /\ subs[s].recv[Len(subs[s].recv)].event \in TERMINAL_EVENTS)
           => subs[s].pc \in {"yielded", "closed"}
     /\ (subs[s].pc = "closed" /\ subs[s].why = "terminal")
           => /\ Len(subs[s].recv) > 0
              /\ subs[s].recv[Len(subs[s].recv)].event \in TERMINAL_EVENTS

\* an sse stream returned on a terminal frame although its list holds later records
C4_Witness ==
  \E s \in Sub : /\ subs[s].kind = "sse" /\ subs[s].pc = "closed" /\ subs[s].why = "terminal"
                 /\ Len(ListOf(subs[s].events)) > Len(subs[s].recv)
                 /\ Len(subs[s].recv) >= 2

CleanupStep(r) == prod[r] = "open" /\ prod'[r] = "closed"

Owed(k, q) ==
  IF k # "stream" /\ FirstTerminal(q) > 0 THEN SubSeq(q, 1, FirstTerminal(q)) ELSE q

\* C7: live tail: a stream that has waited on the condition, once it has
\* ended, has yielded every record appended to its run (up to the first
\* terminal event for stream_sse)
C7_LiveTail ==
  \A s \in Sub : (subs[s].pc = "closed" /\ subs[s].tailed) =>
     subs[s].recv = Items(subs[s].kind, Owed(subs[s].kind, hist[subs[s].run]))

\* ------------------------------------------------------------ pool properties

C2_OneRunPerVm ==
  \A r \in RunId, q \in RunId, e \in EntryId :
     (Holds(r, e) /\ Holds(q, e)) => r = q

\* two runs hold the agent's two VMs while a third checkout waits at the cap
C2_Witness ==
  \E r \in RunId, q \in RunId, w \in RunId :
     /\ r # q /\ run[r].entry # run[q].entry
     /\ Holds(r, run[r].entry) /\ Holds(q, run[q].entry)
     /\ run[w].pc = "co_wait"

\* C8 as claimed: whenever the agent has an idle entry whose VM is healthy, a
\* checkout that leaves its loop has marked such an entry busy, has added no
\* entry and goes on to return that entry's VM
C8_WarmHitAnyHealthy ==
  [][\A r \in RunId :
       (/\ run[r].pc = "checkout" /\ run'[r].pc \notin {"checkout", "co_wait"}
        /\ \E i \in 1..Len(agents[run[r].agent]) :
              LET e == agents[run[r].agent][i]
              IN ~ent[e].busy /\ ent[e].vm /\ ent[e].alive /\ ~ent[e].destroyed)
       => /\ run'[r].pc = "health"
          /\ ~ent[run'[r].entry].busy /\ ent'[run'[r].entry].busy
          /\ ent[run'[r].entry].alive
          /\ agents' = agents /\ nent' = nent]_vars

\* C8 amended: whenever the agent has idle entries with a VM handle, checkout
\* marks the first of them busy, adds no entry and begins no cold start; it
\* does not wait; and when that entry's health probe succeeds checkout
\* returns that entry's VM
C8_WarmHitFirstIdle ==
  [][\A r \in RunId :
       /\ (/\ run[r].pc = "checkout" /\ run'[r].pc # "checkout"
           /\ \E i \in 1..Len(agents[run[r].agent]) :
                 ~ent[agents[run[r].agent][i]].busy /\ ent[agents[run[r].agent][i]].vm)
          => /\ run'[r].pc = "health"
             /\ \E i \in 1..Len(agents[run[r].agent]) :
                   LET e == agents[run[r].agent][i]
                   IN /\ run'[r].entry = e
                      /\ ~ent[e].busy /\ ent[e].vm /\ ent'[e].busy
                      /\ \A j \in 1..(i - 1) :
                            ent[agents[run[r].agent][j]].busy \/ ~ent[agents[run[r].agent][j]].vm
             /\ agents' = agents /\ nent' = nent
       /\ (/\ run[r].pc = "health" /\ run'[r].pc # "health"
           /\ ent[run[r].entry].alive /\ ~ent[run[r].entry].destroyed)
          => /\ run'[r].pc = "submit" /\ run'[r].entry = run[r].entry
             /\ agents' = agents /\ nent' = nent]_vars

\* two sequential successful runs on a stateless agent with cap 1: the first
\* has completed and checked in, the second was given the same VM after a
\* successful probe, and one entry was created in all
C8_Witness ==
  /\ cfg["a1"] = [stateful |-> FALSE, max_concurrent_vms |-> 1]
  /\ run["r1"].pc = "done" /\ ~run["r1"].synth
  /\ Len(hist["r1"]) >= 1 /\ hist["r1"][Len(hist["r1"])][1] = "nightshift.completed"
  /\ run["r2"].pc = "submit" /\ run["r2"].entry = 1 /\ run["r2"].attempt = 0
  /\ run["r3"].pc = "idle"
  /\ nent = 1 /\ env.kills = 0

\* C9: a checkout that found the agent at its cap with no idle entry obtains
\* an entry only after an entry of the agent was checked in or removed, and
\* no checkout is left waiting on the condition while the agent has an idle
\* entry with a VM or is under its cap
C9_BlocksUntilFreed ==
  [][\A r \in RunId :
       /\ (run[r].blocked /\ run[r].pc = "checkout" /\ run'[r].pc \in {"health", "cold"})
          => run[r].freed
       /\ run'[r].pc = "co_wait" =>
            /\ Len(agents'[run'[r].agent]) >= effective_max(cfg[run'[r].agent])
            /\ \A i \in 1..Len(agents'[run'[r].agent]) :
                  ent'[agents'[run'[r].agent][i]].busy \/ ~ent'[agents'[run'[r].agent][i]].vm]_vars

\* cap 2 and three simultaneous runs: two entries were cold-started, the third
\* run waited at the cap and holds a VM now, after a checkin
C9_Witness ==
  \E r \in RunId :
     /\ Holds(r, run[r].entry) /\ run[r].attempt = 0
     /\ cfg["a1"].max_concurrent_vms = 2
     /\ nent = 2 /\ Len(agents["a1"]) = 2
     /\ \E q \in RunId : q # r /\ Holds(q, run[q].entry)
     /\ \E q \in RunId : q # r /\ run[q].pc = "done" /\ ~run[q].synth
     /\ env.kills = 0

HasError(r) == \E i \in 1..Len(hist[r]) : hist[r][i][1] = "nightshift.error"

\* C10: a run whose first checkout found the warm VM unhealthy goes on to a
\* second attempt on a cold-started VM: no nightshift.error is published for
\* it unless the second attempt has been made
C10_WarmFailureRetried ==
  \A r \in RunId :
     (run[r].probed /\ run[r].attempt = 0) => (~HasError(r) /\ run[r].pc # "done")

\* number of nightshift.error records ever appended to run r
NumErrors(r) == Cardinality({i \in 1..Len(hist[r]) : hist[r][i][1] = "nightshift.error"})

\* C11: a pooled run makes at most two attempts (attempt is 0 or 1); an error
\* during submit or streaming takes the VM's entry out of the pool; on the
\* first attempt the handler destroys the VM and goes back to checkout with
\* nothing appended to the run; on the second attempt it destroys the VM and
\* the run ends with exactly one appended record, a nightshift.error, the
\* only synthetic error of the run
C11_ExactlyOneRetry ==
  [][\A r \in RunId :
       LET a == run[r].agent
           e == run[r].entry
       IN /\ run'[r].attempt \in {0, 1}
          /\ (run[r].pc \in {"submit", "wait"} /\ run'[r].pc = "inval") =>
                /\ \A i \in 1..Len(agents'[a]) : agents'[a][i] # e
                /\ run'[r].attempt = run[r].attempt
                /\ hist'[r] = hist[r]
          /\ (run[r].pc = "inval" /\ run'[r].pc # "inval" /\ run[r].attempt = 0) =>
                /\ run'[r].pc = "checkout" /\ run'[r].attempt = 1
                /\ e # 0 => ent'[e].destroyed
                /\ hist'[r] = hist[r]
          /\ (run[r].pc = "inval" /\ run'[r].pc # "inval" /\ run[r].attempt = 1) =>
                /\ run'[r].pc = "done"
                /\ e # 0 => ent'[e].destroyed
                /\ ~run[r].synth /\ run'[r].synth
                /\ hist'[r] = Append(hist[r], Record(r, Len(hist[r]) + 1, "nightshift.error"))
     ]_vars

\* both attempts of r1 cold-started a VM whose guest then died: the second
\* failure ended the run with its single error record
C11_Witness ==
  /\ run["r1"].pc = "done" /\ run["r1"].attempt = 1
  /\ run["r1"].synth /\ ~run["r1"].probed
  /\ run["r2"].pc = "idle"
  /\ nent = 2 /\ env.kills = 2
  /\ ent[1].destroyed /\ ent[2].destroyed
  /\ NumErrors("r1") = 1

\* C12: on every exit path the orchestrator calls cleanup(run_id) exactly
\* once: the step in which a run's orchestrator finishes is the one step in
\* which the run's producer side is closed by cleanup, and a finished
\* orchestrator takes no further step
C12_CleanupExactlyOnce ==
  [][\A r \in RunId :
       /\ (run[r].pc # "done" /\ run'[r].pc = "done") <=> CleanupStep(r)
       /\ run[r].pc = "done" => run'[r].pc = "done"
     ]_vars

\* a terminal record
IsTerminal(rec) == rec[1] \in TERMINAL_EVENTS

\* C13: once wait_for_completion has forwarded a terminal event of the guest
\* into the run's buffer, no further terminal record is appended to the run
C13_GuestTerminalAuthoritative ==
  [][\A r \in RunId :
       run[r].gterm =>
         \A i \in (Len(hist[r]) + 1)..Len(hist'[r]) : ~IsTerminal(hist'[r][i])
     ]_vars

\* C14: when the orchestrator has called cleanup for a run, the run's buffer
\* holds a terminal record (the guest's, or the orchestrator's synthetic error)
C14_TerminalAtMarkDone ==
  \A r \in RunId :
    prod[r] = "closed" => \E i \in 1..Len(hist[r]) : IsTerminal(hist[r][i])

\* C17: an idle timer that fires removes its entry (and goes on to destroy
\* it) only when the entry is in the pool and not busy, and otherwise changes
\* neither the pool nor the entry; an entry the timer has removed is never
\* busy and never held by a run
C17_IdleTimerSparesBusy ==
  [][\A e \in EntryId :
       LET a == ent[e].agent
       IN /\ (ent[e].idle_task = "sleeping" /\ ent'[e].idle_task = "expiring") =>
               /\ InPool(a, e) /\ ~ent[e].busy
               /\ \A r \in RunId : ~Holds(r, e)
               /\ agents'[a] = Remove(agents[a], e)
          /\ (ent[e].idle_task = "sleeping" /\ ent'[e].idle_task = "fired") =>
               /\ ~InPool(a, e) \/ ent[e].busy
               /\ agents' = agents /\ teardown' = teardown
               /\ ent' = [ent EXCEPT ![e].idle_task = "fired"]
          /\ ent'[e].idle_task = "expiring" =>
               /\ ~ent'[e].busy
               /\ \A r \in RunId : ~(run'[r].entry = e /\ run'[r].pc \in {"submit", "wait", "checkin"})
     ]_vars

\* the idle timer of the first VM has removed it while the second run is in
\* checkout
C17_Witness ==
  /\ ent[1].idle_task = "expiring" /\ 1 \in teardown
  /\ run["r1"].pc = "done"
  /\ run["r2"].pc \in {"checkout", "cold"}

\* C15: when a stateful entry with a booted VM is torn down after
\* invalidate_agent or shutdown detached it, the guest is stopped and the
\* overlay image and scratch directory are gone afterwards, whatever the
\* extraction did; the extraction ran on the intact image (it is not "gone"),
\* and when it succeeded the agent's workspace directory holds the guest's tree
C15_StatefulTeardown ==
  [][\A e \in EntryId :
       (e \in teardown /\ e \notin teardown' /\ cfg[ent[e].agent].stateful /\ ent[e].vm) =>
         /\ e \notin host'.procs
         /\ e \notin host'.images /\ e \notin host'.dirs
         /\ e \in host.images =>
              /\ vmh'[e].extract \in {"ok", "failed"}
              /\ vmh'[e].extract = "ok" => host'.workspace[ent[e].agent] = e
     ]_vars

\* the stateful agent was redeployed after its first run: the VM's workspace
\* was extracted and the VM destroyed, with no guest death and no shutdown
C15_Witness ==
  /\ cfg["a1"].stateful
  /\ env.invalidations = 1 /\ env.kills = 0 /\ ~host.down
  /\ run["r1"].pc = "done" /\ run["r1"].gterm
  /\ ent[1].destroyed /\ vmh[1].calls = 1 /\ vmh[1].extract = "ok"
  /\ host.workspace["a1"] = 1
  /\ 1 \notin host.images /\ 1 \notin host.procs

\* C16: the _destroy_entry that invalidate_vm runs for a failed attempt does
\* not extract: it leaves every agent's workspace directory and the entry's
\* extraction record as they were
C16_InvalidateVmKeepsWorkspace ==
  [][\A r \in RunId :
       (run[r].pc = "inval" /\ run'[r].pc # "inval") =>
         /\ host'.workspace = host.workspace
         /\ \A e \in EntryId : vmh'[e].extract = vmh[e].extract
     ]_vars

\* C20: a cold start that fails leaves the host as it was before the start:
\* no index, TAP device, NAT rule, process, image or directory is added
C20_FailedStartLeavesNothing ==
  [][\A r \in RunId :
       (run[r].pc = "cold" /\ run'[r].pc = "done") => host' = host
     ]_vars

\* C18: any two TAP leases that exist at the same time have different
\* indices and different guest IPs
C18_LeasesDistinct ==
  \A e1, e2 \in EntryId :
    (e1 # e2 /\ host.taps[e1] # 0 /\ host.taps[e2] # 0) =>
      /\ host.taps[e1] # host.taps[e2]
      /\ GuestIp(host.taps[e1]) # GuestIp(host.taps[e2])

\* C19: a destroy() call on a handle that was destroyed before changes
\* nothing on the host: allocator, TAP devices, NAT rules, processes, files
C19_DestroyIdempotent ==
  [][\A v \in EntryId :
       (vmh[v].calls >= 1 /\ vmh'[v].calls = vmh[v].calls + 1) => host' = host
     ]_vars

\* C21: when the startup call of cleanup_stale_taps returns, no tap-* device
\* and no NAT rule of a 172.16.x guest address is left on the host
C21_SweepLeavesNothing ==
  [][(~host.swept /\ host'.swept) =>
       /\ \A e \in EntryId : host'.taps[e] = 0
       /\ \A i \in Index : host'.nat[i] = 0
     ]_vars

\* C22: a subscription to a run made after the run's cleanup and after a
\* reap of the run is handed no event and does not stay open: its stream
\* never waits on the condition
C22_LateSubscribeEnds ==
  \A s \in Sub :
    subs[s].late => (subs[s].recv = <<>> /\ subs[s].pc \in {"loop", "closed"})

\* the env a VM of agent a boots with when no request is involved
StaticEnvOf(a) ==
  [k \in EnvKeys |->
     CASE k = "NIGHTSHIFT_WORKSPACE" -> "/workspace"
       [] k = "NIGHTSHIFT_AGENT_DIR" -> AGENT_PKG_DIR
       [] OTHER -> IF envs.env[a][k] # NoVal THEN envs.env[a][k]
                   ELSE IF k \in envs.forward_env[a] THEN OsEnviron[k] ELSE NoVal]

\* C23: in pooled mode the env map handed to a VM's overlay build holds the
\* platform's NIGHTSHIFT_* values, the agent's stored env and the forwarded
\* host values and nothing else, whatever runtime_env the run that booted the
\* VM or any run that used it carries; the run's POST /run body carries
\* exactly the run's runtime_env
C23_RuntimeEnvNotBaked ==
  /\ \A e \in EntryId : vmh[e].dir => envs.baked[e] = StaticEnvOf(ent[e].agent)
  /\ \A r \in RunId : run[r].pc \in {"wait", "checkin", "done"} /\ ~run[r].synth
                          => envs.body[r] = envs.req[r]
  /\ \A r \in RunId : envs.body[r] \in {NoEnv, envs.req[r]}

\* a run whose request carries a secret cold-started the VM and finished, and
\* a second run with a different runtime_env is running on the same VM
C23_Witness ==
  /\ run["r1"].pc = "done" /\ run["r1"].gterm
  /\ envs.req["r1"]["API_KEY"] = "run-secret" /\ envs.req["r1"]["MODE"] = "debug"
  /\ envs.env["a1"]["MODE"] = "prod" /\ envs.forward_env["a1"] = {"API_KEY"}
  /\ run["r2"].pc = "wait" /\ run["r2"].entry = 1 /\ envs.req["r2"] = NoEnv
  /\ envs.baked[1]["API_KEY"] = "operator-key" /\ envs.baked[1]["MODE"] = "prod"
  /\ envs.body["r1"]["API_KEY"] = "run-secret"

\* C24: a checkout that finds its agent without any entry never waits on the
\* condition: the cap counts as at least 1, so it creates a placeholder and
\* cold-starts
C24_ZeroCapTreatedAsOne ==
  [][\A r \in RunId :
       (run[r].pc = "checkout" /\ Len(agents[run[r].agent]) = 0) =>
          run'[r].pc # "co_wait"
     ]_vars

\* nothing of entry e is left on the host
Released(e) ==
  /\ e \notin host.procs /\ host.taps[e] = 0
  /\ e \notin host.images /\ e \notin host.dirs
  /\ e \notin host.staged

\* C25: an entry that has left the pool for good (it is not in the pool map,
\* no teardown of it is pending and no run refers to it any more) has had
\* its VM destroyed and its package and staging directories removed
C25_RemovedEntryReleased ==
  \A e \in EntryId :
    (/\ e <= nent
     /\ ~InPool(ent[e].agent, e)
     /\ e \notin teardown
     /\ \A r \in RunId : run[r].entry # e) => Released(e)

\* C26: checkout returns a warm handle, and the orchestrator's submit_run is
\* accepted by a handle, only when no teardown of the handle's entry has
\* begun: the entry has not been detached for _destroy_entry and its VM has
\* not been destroyed
C26_OnlyHealthyUsed ==
  [][\A r \in RunId :
       LET e == run[r].entry
       IN /\ (run[r].pc = "health" /\ run'[r].pc = "submit") =>
               (e \notin teardown /\ ~ent[e].destroyed)
          /\ (run[r].pc = "submit" /\ run'[r].pc = "wait") =>
               (e \notin teardown /\ ~ent[e].destroyed)
     ]_vars

\* C27: invalidate_agent empties the agent's list and hands its entries to
\* teardown in one step under the condition, with no entry torn down yet; no
\* entry of the pool map is ever awaiting teardown; a checkout that acquires
\* a warm entry acquires one that is in the map and not awaiting teardown or
\* destroyed; and a checkout that finds the list empty creates a placeholder
\* and cold-starts
C27_DetachBeforeTeardown ==
  [][/\ env'.invalidations # env.invalidations =>
          /\ \E a \in Agent :
                /\ agents' = [agents EXCEPT ![a] = <<>>]
                /\ teardown' = teardown \cup {agents[a][i] : i \in 1..Len(agents[a])}
          /\ ent' = ent
     /\ \A a \in Agent : \A i \in 1..Len(agents'[a]) : agents'[a][i] \notin teardown'
     /\ \A r \in RunId :
          LET a == run[r].agent
              e == run'[r].entry
          IN /\ (run[r].pc = "checkout" /\ run'[r].pc = "health") =>
                  /\ InPool(a, e) /\ e \notin teardown /\ e \notin teardown'
                  /\ ~ent[e].destroyed
             /\ (run[r].pc = "checkout" /\ run'[r].pc # "checkout" /\ Len(agents[a]) = 0) =>
                  /\ run'[r].pc = "cold"
                  /\ agents'[a] = <<e>> /\ e \notin teardown' /\ ~ent'[e].vm
    ]_vars

\* the agent was redeployed while its VM was idle: the VM awaits its teardown
\* and the second run's checkout, finding the list empty, is cold-starting a
\* new entry
C27_Witness ==
  /\ env.invalidations = 1
  /\ 1 \in teardown /\ ent[1].vm /\ ~ent[1].destroyed /\ ~ent[1].busy
  /\ run["r1"].pc = "done"
  /\ run["r2"].pc = "cold" /\ run["r2"].entry = 2
  /\ agents["a1"] = <<2>>

\* the step in which an HTTP subscriber of run r ends and reap(r) is called
ReapStep(r) ==
  \E s \in Sub : /\ subs[s].kind = "http" /\ subs[s].run = r
                 /\ subs[s].pc \in {"loop", "yielded"} /\ subs'[s].pc = "closed"

\* C28: reap(r) is called only for a run that cleanup has marked done, and
\* once a run has ended and been reaped the buffer holds no record list and
\* no done flag for it
C28_ReapAfterMarkDone ==
  [][\A r \in RunId :
       /\ ReapStep(r) => r \in done
       /\ (prod'[r] = "closed" /\ reaped'[r]) => (runs'[r] = 0 /\ r \notin done')
     ]_vars

\* C29: when wait_for_completion ends without having forwarded a terminal
\* event of the guest, the attempt counts as failed: the next step of the run
\* is invalidate_vm (from where the first attempt retries and the second
\* ends the run with nightshift.error), never checkin
C29_EofIsFailure ==
  [][\A r \in RunId :
       (run[r].pc = "wait" /\ run'[r].pc # "wait" /\ ~run'[r].gterm) =>
          run'[r].pc = "inval"
     ]_vars

\* C30: _destroy_entry runs vm.destroy() at most once for an entry
C30_TeardownOnce ==
  \A e \in EntryId : vmh[e].calls <= 1

\* C31: the guest never answers a pooled run's POST /run with 409: whenever
\* the host submits a run to a VM whose guest answers, the guest's _run_lock
\* is free (the previous run on the VM has left _execute_run)
C31_NoBusyGuest ==
  [][\A r \in RunId :
       (run[r].pc = "submit" /\ run'[r].pc # "submit" /\ is_healthy(run[r].entry)) =>
          post_run_status(gproc[run[r].entry]) = 202
     ]_vars

\* C32: once shutdown has emptied the pool map, no step adds an entry to the
\* pool (no placeholder is created, no list grows) and no step starts a VM
\* process
C32_NothingAfterShutdown ==
  [][host.down =>
       /\ nent' = nent
       /\ \A a \in Agent : Len(agents'[a]) <= Len(agents[a])
       /\ host'.procs \subseteq host.procs
     ]_vars

\* C33: a subscriber of the HTTP endpoint that was streaming a run when
\* another HTTP subscriber of the same run ended and reaped it does not wait
\* on the condition once the run's producer has called cleanup, and when it
\* has ended it has received everything the other one received
C33_ReapSparesPeer ==
  \A s \in Sub : \A o \in Sub \ {s} :
    (/\ subs[s].overtaken /\ subs[s].kind = "http"
     /\ subs[o].kind = "http" /\ subs[o].run = subs[s].run /\ subs[o].pc = "closed") =>
       /\ prod[subs[s].run] = "closed" => subs[s].pc # "waiting"
       /\ subs[s].pc = "closed" => IsPrefix(subs[o].recv, subs[s].recv)

\* C34: every pooled run that was created eventually reaches the cleanup of
\* run_task_pooled's finally block (mark_done), a checkout that waits on the
\* condition included (unless the pool has used up the entries of the model
\* and the run needs another one)
C34_EveryRunMarkedDone ==
  \A r \in Runs2 : (run[r].pc # "idle") ~> (prod[r] = "closed" \/ nent = MaxEntries)

\* C35: an entry is removed by idle expiry only while it is not busy and
\* only by the timer its most recent checkin armed, which is the one its
\* idle_task field refers to; and no entry ever has two idle timers armed
C35_OnlyLatestTimerEvicts ==
  [][\A e \in EntryId :
       /\ (ent[e].idle_task = "sleeping" /\ ent'[e].idle_task = "expiring") =>
            /\ ~ent[e].busy
            /\ timers.alive \ timers'.alive = {<<e, timers.armed[e]>>}
            /\ timers.ref[e] = timers.armed[e]
       /\ Cardinality({t \in timers'.alive : t[1] = e}) <= 1
     ]_vars

\* an entry was checked in, checked out again by the second run and checked
\* in again; the second timer has fired and is removing the entry
C35_Witness ==
  /\ timers.armed[1] = 2 /\ timers.alive = {} /\ timers.ref[1] = 2
  /\ ent[1].idle_task = "expiring" /\ 1 \in teardown
  /\ run["r1"].pc = "done" /\ run["r2"].pc = "done"

\* C36: the environment of the guest process while it executes a run is the
\* environment the VM booted with, overlaid with that run's runtime_env: a
\* name that only an earlier run on the VM supplied is not set
C36_NoEnvCarryOver ==
  \A r \in RunId :
    (run[r].pc = "wait" /\ run[r].entry # 0) =>
       envs.guest[run[r].entry] = update(envs.baked[run[r].entry], envs.req[r])

\* C37: once _run_agent_task has completed a run's row, the row's status is
\* 'error' (with an error string) exactly when the orchestrator ended the
\* run with its own nightshift.error, and 'completed' otherwise
C37_RegistryRecordsOutcome ==
  \A r \in RunId :
    registry[r].status \in {"completed", "error"} =>
      /\ run[r].synth => (registry[r].status = "error" /\ registry[r].error # "none")
      /\ ~run[r].synth => registry[r].status = "completed"

\* C38: a pool entry that is busy has no idle task: its idle_task field is
\* None, whether the entry is a placeholder, a checked-out warm entry, or an
\* entry that a redeploy detached while a run held it
C38_BusyHasNoTimer ==
  \A e \in EntryId : (e <= nent /\ ent[e].busy) => ent[e].idle_task = "none"

\* the second run holds the VM the first run checked in: the timer armed by
\* that checkin was cancelled by the second run's checkout
C38_Witness ==
  /\ run["r1"].pc = "done" /\ run["r1"].gterm
  /\ run["r2"].pc = "wait" /\ run["r2"].entry = 1
  /\ InPool("a1", 1) /\ ent[1].busy /\ ent[1].idle_task = "none"

\* C39: cleanup(run_id) (the spec's mark_done) on a run id that is not a key
\* of _runs, because no record was ever appended or the run was already
\* reaped, leaves the run map and the done set as they were
C39_CleanupUnknownNoOp ==
  [][\A r \in RunId : (CleanupStep(r) /\ runs[r] = 0) => (runs' = runs /\ done' = done)]_vars

\* the positions of the nightshift.started records in the run's buffer
StartedAt(r) ==
  IF runs[r] = 0 THEN {}
  ELSE {i \in 1..Len(ListOf(runs[r])) : ListOf(runs[r])[i][1] = "nightshift.started"}

\* C40: a run's buffer holds at most one nightshift.started record: the
\* guest's started event does not repeat the host's, and a retry does not add
\* the events of a second guest attempt after those of the failed first one
C40_OneStartedOneAttempt ==
  \A r \in RunId : Cardinality(StartedAt(r)) <= 1

====
